---- MODULE Spec2Model ----
(***************************************************************************)
(* A model of nuwault-core: the digest deriver (HashGenerator), the        *)
(* password mapper (PasswordGenerator.hashToPassword and its passes) and   *)
(* the entry point PasswordGenerator.generatePassword with its validator.  *)
(* Strings are sequences of one-character strings; arrays are 0-indexed    *)
(* functions, as in the source.                                            *)
(***************************************************************************)
EXTENDS Integers, Sequences, FiniteSets, TLC

(***************************************************************************)
(* config.ts                                                               *)
(***************************************************************************)
minPasswordLength == 8
maxPasswordLength == 128
defaultPasswordLength == 16
hashIterations == 1000
longThreshold == 64
mediumThreshold == 32

UPPERCASE == <<"A","B","C","D","E","F","G","H","I","J","K","L","M",
               "N","O","P","Q","R","S","T","U","V","W","X","Y","Z">>
LOWERCASE == <<"a","b","c","d","e","f","g","h","i","j","k","l","m",
               "n","o","p","q","r","s","t","u","v","w","x","y","z">>
NUMBERS == <<"0","1","2","3","4","5","6","7","8","9">>
SYMBOLS == <<"!","@","#","$","%","^","&","*","(",")","_","+","-",
             "=","[","]","{","}","|",";",":",",",".","<",">","?">>

TypeNames == <<"uppercase", "lowercase", "numbers", "symbols">>

CHARACTER_SETS(type) ==
  CASE type = "uppercase" -> UPPERCASE
    [] type = "lowercase" -> LOWERCASE
    [] type = "numbers" -> NUMBERS
    [] type = "symbols" -> SYMBOLS

Range(s) == {s[i] : i \in DOMAIN s}

PoolChars == Range(UPPERCASE) \cup Range(LOWERCASE) \cup Range(NUMBERS) \cup Range(SYMBOLS)

\* mutant: the long and the medium profile are exchanged
DistributionPercentSwapped(profile, type) ==
  IF profile = "long"
  THEN CASE type = "uppercase" -> 25 [] type = "lowercase" -> 35
         [] type = "numbers" -> 20 [] type = "symbols" -> 20
  ELSE CASE type = "uppercase" -> 20 [] type = "lowercase" -> 35
         [] type = "numbers" -> 20 [] type = "symbols" -> 25

\* long.distribution and medium.distribution, in hundredths
DistributionPercent(profile, type) ==
  IF profile = "long"
  THEN CASE type = "uppercase" -> 20 [] type = "lowercase" -> 35
         [] type = "numbers" -> 20 [] type = "symbols" -> 25
  ELSE CASE type = "uppercase" -> 25 [] type = "lowercase" -> 35
         [] type = "numbers" -> 20 [] type = "symbols" -> 20

\* DEFAULT_PASSWORD_OPTIONS
DEFAULT_PASSWORD_OPTIONS ==
  [includeUppercase |-> TRUE, includeLowercase |-> TRUE,
   includeNumbers |-> TRUE, includeSymbols |-> TRUE]

(***************************************************************************)
(* The generator closure of hashToPassword: getHashValue                   *)
(***************************************************************************)
HexDigits == <<"0","1","2","3","4","5","6","7","8","9","a","b","c","d","e","f">>

\* the value of each character parseInt accepts as a digit in radix 16
HexValue ==
  [c \in Range(HexDigits) \cup {"A","B","C","D","E","F"} |->
     CASE c = "A" -> 10 [] c = "B" -> 11 [] c = "C" -> 12
       [] c = "D" -> 13 [] c = "E" -> 14 [] c = "F" -> 15
       [] OTHER -> (CHOOSE i \in 1..16 : HexDigits[i] = c) - 1]

HexChars == DOMAIN HexValue

IsHexDigit(c) == c \in HexChars

HexDigitValue(c) == HexValue[c]

\* the white space parseInt skips at the start of its argument
StrWhiteSpace == {" ", "\t", "\n"}

RECURSIVE skipWhiteSpace(_)
skipWhiteSpace(s) ==
  IF s # <<>> /\ Head(s) \in StrWhiteSpace THEN skipWhiteSpace(Tail(s)) ELSE s

\* the value of the digits of s from index k up to the first character that is
\* not a digit in radix 16
RECURSIVE hexDigitsValue(_, _, _)
hexDigitsValue(s, k, acc) ==
  IF k > Len(s) \/ ~IsHexDigit(s[k]) THEN acc
  ELSE hexDigitsValue(s, k + 1, acc * 16 + HexDigitValue(s[k]))

\* parseInt(s, 16): white space is skipped, then a sign, then 0x or 0X, and the
\* longest prefix of hex digits is the value; NaN when that prefix is empty
parseIntString(s) ==
  LET stripped == skipWhiteSpace(s)
      negative == stripped # <<>> /\ Head(stripped) = "-"
      unsigned == IF stripped # <<>> /\ Head(stripped) \in {"-", "+"}
                  THEN Tail(stripped) ELSE stripped
      digits == IF Len(unsigned) >= 2 /\ unsigned[1] = "0" /\ unsigned[2] \in {"x", "X"}
                THEN SubSeq(unsigned, 3, Len(unsigned)) ELSE unsigned
  IN IF digits = <<>> \/ ~IsHexDigit(digits[1]) THEN [nan |-> TRUE, value |-> 0]
     ELSE [nan |-> FALSE,
           value |-> IF negative THEN 0 - hexDigitsValue(digits, 1, 0)
                     ELSE hexDigitsValue(digits, 1, 0)]

\* parseInt(c1 + c2 + c3, 16)
parseInt16(c1, c2, c3) ==
  IF IsHexDigit(c1) /\ IsHexDigit(c2) /\ IsHexDigit(c3)
  THEN [nan |-> FALSE,
        value |-> HexDigitValue(c1) * 256 + HexDigitValue(c2) * 16 + HexDigitValue(c3)]
  ELSE parseIntString(<<c1, c2, c3>>)

\* x || 1
OrOne(parsed) == IF parsed.nan \/ parsed.value = 0 THEN 1 ELSE parsed.value

\* hash[k] of a 0-indexed string held as a 1-indexed sequence
CharAt(hash, k) == hash[k + 1]

\* mutant: the characters are read after the cursor has moved
getHashValueAfterAdvance(hash, offset, seed) ==
  LET hashLength == Len(hash)
      index1 == (offset + 3 + seed) % hashLength
      index2 == (offset + 3 + seed + 1) % hashLength
      index3 == (offset + 3 + seed + 2) % hashLength
  IN OrOne(parseInt16(CharAt(hash, index1), CharAt(hash, index2), CharAt(hash, index3)))

\* the value getHashValue(seed) returns when the cursor is at offset
getHashValue(hash, offset, seed) ==
  LET hashLength == Len(hash)
      index1 == (offset + seed) % hashLength
      index2 == (offset + seed + 1) % hashLength
      index3 == (offset + seed + 2) % hashLength
  IN OrOne(parseInt16(CharAt(hash, index1), CharAt(hash, index2), CharAt(hash, index3)))

\* the cursor after one getHashValue call
advanceOffset(hash, offset) == (offset + 3) % Len(hash)

(***************************************************************************)
(* calculateMaxRepetitions, calculateTargetDistribution                    *)
(***************************************************************************)
Max(a, b) == IF a > b THEN a ELSE b

\* mutant: the budget of the long passwords at every length
maxRepetitionsByTenth(length) == Max(3, length \div 10)

calculateMaxRepetitions(length) ==
  IF length <= 8 THEN 2
  ELSE IF length <= 16 THEN Max(2, length \div 6)
  ELSE IF length <= 32 THEN Max(2, length \div 8)
  ELSE Max(3, length \div 10)

ActiveTypes(activeSets) == {activeSets[k].type : k \in DOMAIN activeSets}

\* the counts before the remainder is added. Math.floor(length * 0.35) equals
\* floor(length * 35 / 100) for every length below 180.
FlooredDistribution(activeSets, length) ==
  IF Len(activeSets) = 4
  THEN IF length >= longThreshold
       THEN [t \in Range(TypeNames) |-> (length * DistributionPercent("long", t)) \div 100]
       ELSE IF length >= mediumThreshold
       THEN [t \in Range(TypeNames) |-> (length * DistributionPercent("medium", t)) \div 100]
       ELSE [t \in Range(TypeNames) |-> length \div 4]
  ELSE [t \in Range(TypeNames) |->
          IF t \in ActiveTypes(activeSets) THEN length \div Len(activeSets) ELSE 0]

MinOfIndex(S) == CHOOSE m \in S : \A x \in S : m <= x
MaxOfIndex(S) == CHOOSE m \in S : \A x \in S : x <= m

\* Object.keys(targetDistribution).reduce((a, b) => td[a] > td[b] ? a : b)
RECURSIVE ReduceLargest(_, _, _)
ReduceLargest(td, a, k) ==
  IF k > Len(TypeNames) THEN a
  ELSE LET b == TypeNames[k]
       IN ReduceLargest(td, IF td[a] > td[b] THEN a ELSE b, k + 1)

\* mutant: the first of the classes with the largest count
largestTypeFirst(td) ==
  TypeNames[MinOfIndex({k \in 1..Len(TypeNames) :
                          \A j \in 1..Len(TypeNames) : td[TypeNames[j]] <= td[TypeNames[k]]})]

largestType(td) == ReduceLargest(td, TypeNames[1], 2)

SumDistribution(td) == td["uppercase"] + td["lowercase"] + td["numbers"] + td["symbols"]

\* mutant: the remainder is never added
targetDistributionWithoutRemainder(activeSets, length) ==
  FlooredDistribution(activeSets, length)

calculateTargetDistribution(activeSets, length) ==
  LET floored == FlooredDistribution(activeSets, length)
      remainder == length - SumDistribution(floored)
  IN IF remainder > 0
     THEN [floored EXCEPT ![largestType(floored)] = @ + remainder]
     ELSE floored

(***************************************************************************)
(* Inputs of the mapper: digests, lengths and class options                *)
(***************************************************************************)
\* SHA-512 gives 64 bytes, two hex digits each
DigestBytes == 64
DigestLength == 2 * DigestBytes

\* the digest of ALGORITHM_TEST_VECTORS[0] (keywords ['test'], 1000 iterations);
\* its first 16 digits are the pinned hashPrefix
VectorDigest0 ==
  <<"4","6","5","e","3","4","9","b","f","2","0","a","c","0","0","9",
  "7","6","9","0","a","3","9","9","4","2","3","0","0","7","4","8",
  "1","f","5","5","3","4","6","b","6","3","8","7","e","c","b","6",
  "9","5","c","5","d","d","e","9","0","3","d","1","e","f","9","c",
  "6","d","9","3","1","1","d","2","c","f","a","8","f","1","4","9",
  "2","0","1","d","e","b","1","f","3","7","a","b","3","0","e","c",
  "f","e","9","5","3","7","9","e","5","9","5","1","2","d","1","9",
  "8","2","6","a","8","5","c","1","0","5","e","7","2","b","c","7">>

\* the digest of ALGORITHM_TEST_VECTORS[2] (keywords ['diversity-test'])
VectorDigest2 ==
  <<"4","6","1","f","4","d","9","8","b","e","e","7","9","2","2","b",
  "7","e","f","b","a","0","d","4","4","4","a","9","c","9","9","2",
  "6","5","3","c","f","7","5","4","8","3","8","8","8","c","5","1",
  "e","2","3","3","8","4","1","e","6","7","5","4","6","6","a","1",
  "1","0","4","c","f","f","6","2","a","5","4","e","9","7","c","4",
  "7","d","1","3","a","3","8","d","4","5","1","d","b","d","4","a",
  "6","d","c","0","b","9","7","5","d","1","2","f","9","8","7","8",
  "0","6","a","2","a","2","e","1","4","4","b","3","c","d","d","a">>

\* a digest of DigestLength digits that repeats pattern
\* doubling keeps the period of the pattern
RECURSIVE Doubled(_, _)
Doubled(s, n) == IF Len(s) >= n THEN s ELSE Doubled(s \o s, n)

PeriodicDigest(pattern) == SubSeq(Doubled(pattern, DigestLength), 1, DigestLength)

\* a digest whose sixteenth probe for the first symbols slot of a password of
\* length 8 is the first one to find a free position
ScanDigest ==
  <<"d","6","c","2","a","f","9","8","2","e","3","7","f","8","e","5",
    "8","0","4","9","f","6","f","9","d","c","b","b","c","5","b","2",
    "c","7","c","d","7","b","2","b","4","5","4","a","0","d","5","8",
    "0","8","b","6","c","9","3","3","1","c","d","c","d","5","d","3",
    "e","d","4","8","1","b","a","e","2","e","7","7","d","5","3","1",
    "a","e","7","9","2","b","e","f","5","7","7","9","1","f","e","f",
    "1","5","a","2","0","c","6","0","6","4","b","1","1","e","3","e",
    "6","d","d","2","b","9","5","5","7","4","5","e","c","f","f","b">>

DigestSamples ==
  {VectorDigest0, PeriodicDigest(<<"0">>), PeriodicDigest(<<"1","0","0","f","7">>)}

LengthSamples ==
  {minPasswordLength, defaultPasswordLength, 21, mediumThreshold, longThreshold,
   maxPasswordLength}

OptionSamples ==
  [includeUppercase : BOOLEAN, includeLowercase : BOOLEAN,
   includeNumbers : BOOLEAN, includeSymbols : BOOLEAN]

\* how many times the same mapping call is made in one process
MaxCalls == 2

\* loops are evaluated in blocks of this many iterations
LoopBlock == 16

(***************************************************************************)
(* Strings and numbers of the host language                                *)
(***************************************************************************)
\* the printable characters in code order from the space on, the grave
\* accent (code 96) left out
Ascii == <<
  " ", "!", "\"", "#", "$", "%", "&", "'", "(", ")", "*", "+", ",", "-", ".", "/",
  "0", "1", "2", "3", "4", "5", "6", "7", "8", "9", ":", ";", "<", "=", ">", "?",
  "@", "A", "B", "C", "D", "E", "F", "G", "H", "I", "J", "K", "L", "M", "N", "O",
  "P", "Q", "R", "S", "T", "U", "V", "W", "X", "Y", "Z", "[", "\\", "]", "^", "_",
  "a", "b", "c", "d", "e", "f", "g", "h", "i", "j", "k", "l", "m", "n", "o",
  "p", "q", "r", "s", "t", "u", "v", "w", "x", "y", "z", "{", "|", "}", "~" >>

Whitespace == {" ", "\t", "\n"}
\* two letters that carry a diacritic
Accented == {"É", "é"}
Characters == Range(Ascii) \cup Whitespace \cup Accented

\* the code point of a character
CharCode ==
  [c \in Characters |->
     IF c = "\t" THEN 9
     ELSE IF c = "\n" THEN 10
     ELSE IF c = "É" THEN 201
     ELSE IF c = "é" THEN 233
     ELSE LET k == CHOOSE j \in 1..Len(Ascii) : Ascii[j] = c
          IN IF k > 64 THEN 32 + k ELSE 31 + k]

\* String.prototype.toLowerCase, one character
LowerOf ==
  [c \in Characters |->
     IF c \in Range(UPPERCASE)
       THEN LOWERCASE[CHOOSE k \in 1..Len(UPPERCASE) : UPPERCASE[k] = c]
     ELSE IF c = "É" THEN "é"
     ELSE c]

RECURSIVE toLowerCase(_)
toLowerCase(s) ==
  IF s = <<>> THEN <<>> ELSE <<LowerOf[Head(s)]>> \o toLowerCase(Tail(s))

RECURSIVE trimStart(_)
trimStart(s) ==
  IF s # <<>> /\ Head(s) \in Whitespace THEN trimStart(Tail(s)) ELSE s

RECURSIVE trimEnd(_)
trimEnd(s) ==
  IF s # <<>> /\ s[Len(s)] \in Whitespace
    THEN trimEnd(SubSeq(s, 1, Len(s) - 1))
    ELSE s

\* String.prototype.trim
trim(s) == trimEnd(trimStart(s))

\* Array.prototype.join with a separator
RECURSIVE joinWith(_, _)
joinWith(parts, sep) ==
  IF parts = <<>> THEN <<>>
  ELSE IF Len(parts) = 1 THEN parts[1]
  ELSE parts[1] \o sep \o joinWith(Tail(parts), sep)

\* the decimal digits of a natural number, as a template literal prints it
RECURSIVE ToDecimal(_)
ToDecimal(n) ==
  IF n < 10 THEN <<NUMBERS[n + 1]>>
  ELSE ToDecimal(n \div 10) \o <<NUMBERS[(n % 10) + 1]>>

\* a number argument: absent, an integer, an integer and a half, or NaN
Undefined == [kind |-> "undefined", value |-> 0]
Integer(n) == [kind |-> "integer", value |-> n]
Fraction(n) == [kind |-> "fraction", value |-> n]
NaN == [kind |-> "NaN", value |-> 0]

\* truthiness of a number argument
TruthyNumber(x) ==
  \/ x.kind = "integer" /\ x.value # 0
  \/ x.kind = "fraction"

\* x || d
NumberOr(x, d) == IF TruthyNumber(x) THEN x ELSE Integer(d)

\* i < x for an integer i
LessThanNumber(i, x) ==
  CASE x.kind = "integer" -> i < x.value
    [] x.kind = "fraction" -> i <= x.value
    [] OTHER -> FALSE

\* a string-or-null argument
Null == [kind |-> "null", chars |-> <<>>]
String(s) == [kind |-> "string", chars |-> s]
TruthyString(x) == x.kind = "string" /\ x.chars # <<>>

(***************************************************************************)
(* src/crypto/hash-generator.ts: HashGenerator                             *)
(***************************************************************************)

\* the UTF-8 bytes of a code point below 2048
UTF8(code) ==
  IF code < 128 THEN <<code>>
  ELSE <<192 + (code \div 64), 128 + (code % 64)>>

\* encoder.encode(iterationSalt): the bytes of each character, in order
encode(text) == [k \in 1..Len(text) |-> UTF8(CharCode[text[k]])]

\* one byte of the message enters the accumulator
AbsorbByte(acc, byte, k) == (acc * 31 + byte + k) % 65521

\* the bytes of the k-th character enter the accumulator
AbsorbBytes(acc, bytes, k) ==
  IF Len(bytes) = 1 THEN AbsorbByte(acc, bytes[1], k)
  ELSE AbsorbByte(AbsorbByte(acc, bytes[1], k), bytes[2], k)

RECURSIVE AbsorbBlock(_, _, _, _, _)
AbsorbBlock(data, n, acc, k, fuel) ==
  IF fuel = 0 \/ k > n \/ acc < 0 THEN acc
  ELSE AbsorbBlock(data, n, AbsorbBytes(acc, data[k], k), k + 1, fuel - 1)

RECURSIVE Absorb(_, _, _, _)
Absorb(data, n, acc, k) ==
  IF k > n \/ acc < 0 THEN acc
  ELSE Absorb(data, n, AbsorbBlock(data, n, acc, k, LoopBlock), k + LoopBlock)

\* crypto.subtle.digest('SHA-512', data): a stand-in that reads every byte
\* of the message in order and yields DigestBytes bytes
digest(data, n) ==
  LET acc == Absorb(data, n, n + 7, 1)
  IN  [k \in 0..(DigestBytes - 1) |->
         (acc * (2 * k + 1) + (acc \div (k + 1)) + 13 * k) % 256]

\* Number.prototype.toString(16) of a byte
toString16(b) ==
  IF b < 16 THEN <<HexDigits[b + 1]>>
  ELSE <<HexDigits[(b \div 16) + 1], HexDigits[(b % 16) + 1]>>

\* String.prototype.padStart(2, '0')
padStart2(s) == IF Len(s) < 2 THEN <<"0">> \o s ELSE s

\* hashArray.map(b => b.toString(16).padStart(2, '0')).join('')
RECURSIVE toHex(_, _)
toHex(hashArray, k) ==
  IF k >= DigestBytes THEN <<>>
  ELSE padStart2(toString16(hashArray[k])) \o toHex(hashArray, k + 1)

\* validateInputs: only an empty array throws; blank entries are dropped
validateInputs(inputs) ==
  IF Len(inputs) = 0
    THEN [threw |-> TRUE, inputs |-> <<>>]
    ELSE [threw |-> FALSE,
          inputs |-> SelectSeq(inputs, LAMBDA input : Len(trim(input)) > 0)]

normalizeInput(input) == toLowerCase(trim(input))

RECURSIVE mapNormalizeInput(_)
mapNormalizeInput(inputs) ==
  IF inputs = <<>> THEN <<>>
  ELSE <<normalizeInput(Head(inputs))>> \o mapNormalizeInput(Tail(inputs))

\* mutant: the normalized keywords are joined with nothing between them
normalizedInputsUnseparated(validatedInputs) ==
  joinWith(mapNormalizeInput(validatedInputs), <<>>)

normalizedInputsOf(validatedInputs) ==
  joinWith(mapNormalizeInput(validatedInputs), <<"|">>)

\* mutant: the salt is left out of the message
iterationSaltUnsalted(effectiveMasterSalt, i, normalizedInputs, currentHash) ==
  joinWith(<< <<"i", "t", "e", "r", "-">> \o ToDecimal(i),
              normalizedInputs, currentHash >>,
           <<"|">>)

\* lines 86-93: the message of iteration i
iterationSalt(effectiveMasterSalt, i, normalizedInputs, currentHash) ==
  joinWith((IF TruthyString(effectiveMasterSalt)
              THEN <<effectiveMasterSalt.chars>> ELSE <<>>)
           \o << <<"i", "t", "e", "r", "-">> \o ToDecimal(i),
                 normalizedInputs, currentHash >>,
           <<"|">>)

(***************************************************************************)
(* State                                                                   *)
(***************************************************************************)
VARIABLES
  hash, length, options,      \* the arguments of hashToPassword
  pc,                         \* where the mapping call stands
  activeSets, targetDistribution, maxRepetitions,
  password, usedPositions, characterUsage, hashOffset,
  setIndex, slotIndex,        \* the loops of fillPasswordWithDistribution
  slot,                       \* the locals of the latest iteration of the inner loop
  results,                    \* the passwords returned so far
  hcalls,                     \* the generateHash calls, each with its own locals
  gcall,                      \* the generatePassword call
  harness,                    \* the compatibility checks over ALGORITHM_TEST_VECTORS
  draw                        \* the getHashValue calls made one by one

mapArgs == <<hash, length, options>>
mapLocals == <<activeSets, targetDistribution, maxRepetitions, password,
               usedPositions, characterUsage, hashOffset, setIndex, slotIndex, slot>>
mapVars == <<mapArgs, pc, mapLocals, results>>
vars == <<mapVars, hcalls, gcall, harness, draw>>

\* an array slot never written (new Array(length))
Hole == ""

(***************************************************************************)
(* hashToPassword: the active sets                                         *)
(***************************************************************************)
CharacterSet(type) == [chars |-> CHARACTER_SETS(type), type |-> type]

AllSets == [k \in 1..4 |-> CharacterSet(TypeNames[k])]

Included(opts, type) ==
  CASE type = "uppercase" -> opts.includeUppercase
    [] type = "lowercase" -> opts.includeLowercase
    [] type = "numbers" -> opts.includeNumbers
    [] type = "symbols" -> opts.includeSymbols

\* mutant: the include flags are ignored
activeSetsIgnoringOptions(opts) == AllSets

\* mutant: the fallback leaves the symbols out
activeSetsFallbackNoSymbols(opts) ==
  LET pushed == SelectSeq(AllSets, LAMBDA s : Included(opts, s.type))
  IN IF Len(pushed) = 0 THEN SubSeq(AllSets, 1, 3) ELSE pushed

activeSetsOf(opts) ==
  LET pushed == SelectSeq(AllSets, LAMBDA s : Included(opts, s.type))
  IN IF Len(pushed) = 0 THEN AllSets ELSE pushed

\* type.charCodeAt(0)
charCodeAt0(type) ==
  CASE type = "uppercase" -> 117 [] type = "lowercase" -> 108
    [] type = "numbers" -> 110 [] type = "symbols" -> 115

(***************************************************************************)
(* selectCharacterWithRepetitionControl                                    *)
(***************************************************************************)
MinOf(S) == CHOOSE m \in S : \A x \in S : m <= x

\* mutant: a character at the budget still counts as under the limit
selectAtLimit(availableChars, usage, maxRep, h, offset, seed) ==
  LET availableUnderLimit == SelectSeq(availableChars, LAMBDA c : usage[c] <= maxRep)
      hashVal == getHashValue(h, offset, seed)
      charIndex == hashVal % Len(availableUnderLimit)
  IN [char |-> availableUnderLimit[charIndex + 1], offset |-> advanceOffset(h, offset)]

\* mutant: the repetition filter is dropped
selectWithoutLimit(availableChars, usage, maxRep, h, offset, seed) ==
  LET hashVal == getHashValue(h, offset, seed)
      charIndex == hashVal % Len(availableChars)
  IN [char |-> availableChars[charIndex + 1], offset |-> advanceOffset(h, offset)]

\* mutant: when every character is at the budget any character is taken
selectAnyWhenSaturated(availableChars, usage, maxRep, h, offset, seed) ==
  LET availableUnderLimit == SelectSeq(availableChars, LAMBDA c : usage[c] < maxRep)
  IN IF Len(availableUnderLimit) > 0
     THEN [char |-> availableUnderLimit[(getHashValue(h, offset, seed)
                                           % Len(availableUnderLimit)) + 1],
           offset |-> advanceOffset(h, offset)]
     ELSE [char |-> availableChars[(getHashValue(h, offset, seed + 1000)
                                      % Len(availableChars)) + 1],
           offset |-> advanceOffset(h, offset)]

selectCharacterWithRepetitionControl(availableChars, usage, maxRep, h, offset, seed) ==
  LET availableUnderLimit == SelectSeq(availableChars, LAMBDA c : usage[c] < maxRep)
  IN IF Len(availableUnderLimit) > 0
     THEN LET hashVal == getHashValue(h, offset, seed)
              charIndex == hashVal % Len(availableUnderLimit)
          IN [char |-> availableUnderLimit[charIndex + 1],
              offset |-> advanceOffset(h, offset)]
     ELSE LET leastUsedCount == MinOf({usage[c] : c \in Range(availableChars)})
              leastUsedChars == SelectSeq(availableChars, LAMBDA c : usage[c] = leastUsedCount)
              hashVal == getHashValue(h, offset, seed + 1000)
              charIndex == hashVal % Len(leastUsedChars)
          IN [char |-> leastUsedChars[charIndex + 1],
              offset |-> advanceOffset(h, offset)]

(***************************************************************************)
(* fillPasswordWithDistribution: one slot of one set                       *)
(***************************************************************************)
\* the do-while probe loop; attempts counts the probes already made. The loop
\* is unrolled in blocks of LoopBlock iterations to keep the evaluation shallow.
\* mutant: the do-while loop allows one probe more
RECURSIVE ProbeBlockOneMore(_, _, _, _, _, _, _)
ProbeBlockOneMore(h, len, used, base, attempts, offset, fuel) ==
  LET hashVal == getHashValue(h, offset, base + attempts)
      position == hashVal % len
      offset2 == advanceOffset(h, offset)
      again == position \in used /\ attempts + 1 < len * 2 + 1
  IN IF again /\ fuel > 1
     THEN ProbeBlockOneMore(h, len, used, base, attempts + 1, offset2, fuel - 1)
     ELSE [position |-> position, attempts |-> attempts + 1, offset |-> offset2,
           again |-> again]

RECURSIVE ProbeBlock(_, _, _, _, _, _, _)
ProbeBlock(h, len, used, base, attempts, offset, fuel) ==
  LET hashVal == getHashValue(h, offset, base + attempts)
      position == hashVal % len
      offset2 == advanceOffset(h, offset)
      again == position \in used /\ attempts + 1 < len * 2
  IN IF again /\ fuel > 1
     THEN ProbeBlock(h, len, used, base, attempts + 1, offset2, fuel - 1)
     ELSE [position |-> position, attempts |-> attempts + 1, offset |-> offset2,
           again |-> again]

RECURSIVE ProbePosition(_, _, _, _, _, _)
ProbePosition(h, len, used, base, attempts, offset) ==
  LET r == ProbeBlock(h, len, used, base, attempts, offset, LoopBlock)
  IN IF r.again THEN ProbePosition(h, len, used, base, r.attempts, r.offset) ELSE r

\* mutant: the scan runs only when the last probe collided as well
ScanPositionOnCollision(len, used, probed) ==
  IF probed.position \in used /\ \E j \in 0..(len - 1) : j \notin used
  THEN MinOf({j \in 0..(len - 1) : j \notin used})
  ELSE probed.position

\* mutant: there is no linear scan
ScanPositionSkipped(len, used, probed) == probed.position

\* the position after the linear scan that follows 2 * length probes
ScanPosition(len, used, probed) ==
  IF probed.attempts >= len * 2 /\ \E j \in 0..(len - 1) : j \notin used
  THEN MinOf({j \in 0..(len - 1) : j \notin used})
  ELSE probed.position

\* mutant: the character is written at the probed position, not the scanned one
PlaceOneAtProbedPosition(h, len, maxRep, set, i, st) ==
  LET probed == ProbePosition(h, len, st.usedPositions,
                              charCodeAt0(set.type) * 1000 + i * 100, 0, st.hashOffset)
      position == ScanPosition(len, st.usedPositions, probed)
  IN IF position \notin st.usedPositions
     THEN LET sel == selectCharacterWithRepetitionControl(
                       set.chars, st.characterUsage, maxRep, h, probed.offset,
                       charCodeAt0(set.type) * 2000 + i * 300)
          IN [password |-> [st.password EXCEPT ![probed.position] = sel.char],
              usedPositions |-> st.usedPositions \cup {position},
              characterUsage |-> [st.characterUsage EXCEPT ![sel.char] = @ + 1],
              hashOffset |-> sel.offset,
              slot |-> [type |-> set.type, i |-> i, usedBefore |-> st.usedPositions,
                        offsetBefore |-> st.hashOffset, probed |-> probed.position,
                        attempts |-> probed.attempts, position |-> position,
                        written |-> TRUE, char |-> sel.char]]
     ELSE [password |-> st.password,
           usedPositions |-> st.usedPositions,
           characterUsage |-> st.characterUsage,
           hashOffset |-> probed.offset,
           slot |-> [type |-> set.type, i |-> i, usedBefore |-> st.usedPositions,
                     offsetBefore |-> st.hashOffset, probed |-> probed.position,
                     attempts |-> probed.attempts, position |-> position,
                     written |-> FALSE, char |-> Hole]]

\* the body of the inner for loop, for slot i of set; st holds the call's scratch
\* state. slot keeps the locals of the iteration: position and attempts when the
\* do-while loop ends (probed, attempts), position at the test of line 511, the
\* character written, with usedPositions and hashOffset as the iteration found them
PlaceOne(h, len, maxRep, set, i, st) ==
  LET probed == ProbePosition(h, len, st.usedPositions,
                              charCodeAt0(set.type) * 1000 + i * 100, 0, st.hashOffset)
      position == ScanPosition(len, st.usedPositions, probed)
  IN IF position \notin st.usedPositions
     THEN LET sel == selectCharacterWithRepetitionControl(
                       set.chars, st.characterUsage, maxRep, h, probed.offset,
                       charCodeAt0(set.type) * 2000 + i * 300)
          IN [password |-> [st.password EXCEPT ![position] = sel.char],
              usedPositions |-> st.usedPositions \cup {position},
              characterUsage |-> [st.characterUsage EXCEPT ![sel.char] = @ + 1],
              hashOffset |-> sel.offset,
              slot |-> [type |-> set.type, i |-> i, usedBefore |-> st.usedPositions,
                        offsetBefore |-> st.hashOffset, probed |-> probed.position,
                        attempts |-> probed.attempts, position |-> position,
                        written |-> TRUE, char |-> sel.char]]
     ELSE [password |-> st.password,
           usedPositions |-> st.usedPositions,
           characterUsage |-> st.characterUsage,
           hashOffset |-> probed.offset,
           slot |-> [type |-> set.type, i |-> i, usedBefore |-> st.usedPositions,
                     offsetBefore |-> st.hashOffset, probed |-> probed.position,
                     attempts |-> probed.attempts, position |-> position,
                     written |-> FALSE, char |-> Hole]]

(***************************************************************************)
(* fillRemainingPositions                                                  *)
(***************************************************************************)
setWeight(set, len) ==
  IF set.type = "symbols" /\ len >= 32 THEN 3
  ELSE IF set.type = "numbers" /\ len >= 32 THEN 2
  ELSE 1

RECURSIVE SumWeights(_, _, _)
SumWeights(sets, len, k) ==
  IF k > Len(sets) THEN 0 ELSE setWeight(sets[k], len) + SumWeights(sets, len, k + 1)

\* the loop over j: the first set at which the running weight is <= 0
RECURSIVE selectedSetFrom(_, _, _, _)
selectedSetFrom(sets, len, selectedWeight, j) ==
  IF j > Len(sets) THEN sets[1]
  ELSE LET w == selectedWeight - setWeight(sets[j], len)
       IN IF w <= 0 THEN sets[j] ELSE selectedSetFrom(sets, len, w, j + 1)

\* the body of the loop for one position i
FillOne(h, len, maxRep, sets, i, st) ==
  IF i \in st.usedPositions THEN st
  ELSE LET totalWeight == SumWeights(sets, len, 1)
           hashVal == getHashValue(h, st.hashOffset, i * 500)
           selectedSet == selectedSetFrom(sets, len, hashVal % totalWeight, 1)
           sel == selectCharacterWithRepetitionControl(
                    selectedSet.chars, st.characterUsage, maxRep, h,
                    advanceOffset(h, st.hashOffset), i * 600)
       IN [st EXCEPT !.password[i] = sel.char,
                     !.characterUsage[sel.char] = @ + 1,
                     !.hashOffset = sel.offset]

RECURSIVE FillBlock(_, _, _, _, _, _, _)
FillBlock(h, len, maxRep, sets, i, st, fuel) ==
  IF i >= len \/ fuel = 0 THEN [i |-> i, st |-> st]
  ELSE FillBlock(h, len, maxRep, sets, i + 1, FillOne(h, len, maxRep, sets, i, st), fuel - 1)

RECURSIVE fillRemainingPositions(_, _, _, _, _, _)
fillRemainingPositions(h, len, maxRep, sets, i, st) ==
  LET r == FillBlock(h, len, maxRep, sets, i, st, LoopBlock)
  IN IF r.i >= len THEN r.st
     ELSE fillRemainingPositions(h, len, maxRep, sets, r.i, r.st)

(***************************************************************************)
(* shufflePassword                                                         *)
(***************************************************************************)
\* mutant: position i takes the character at j, position j keeps its own
ShuffleOneCopying(h, i, sh) ==
  LET hashVal == getHashValue(h, sh.hashOffset, i * 400)
      j == hashVal % (i + 1)
  IN [password |-> [sh.password EXCEPT ![i] = sh.password[j]],
      hashOffset |-> advanceOffset(h, sh.hashOffset)]

\* one swap of the loop, at index i
ShuffleOne(h, i, sh) ==
  LET hashVal == getHashValue(h, sh.hashOffset, i * 400)
      j == hashVal % (i + 1)
  IN [password |-> [sh.password EXCEPT ![i] = sh.password[j], ![j] = sh.password[i]],
      hashOffset |-> advanceOffset(h, sh.hashOffset)]

RECURSIVE ShuffleBlock(_, _, _, _)
ShuffleBlock(h, i, sh, fuel) ==
  IF i <= 0 \/ fuel = 0 THEN [i |-> i, sh |-> sh]
  ELSE ShuffleBlock(h, i - 1, ShuffleOne(h, i, sh), fuel - 1)

RECURSIVE ShuffleLoop(_, _, _)
ShuffleLoop(h, i, sh) ==
  LET r == ShuffleBlock(h, i, sh, LoopBlock)
  IN IF r.i <= 0 THEN r.sh ELSE ShuffleLoop(h, r.i, r.sh)

\* for (let i = length - 1; i > 0; i--)
shufflePassword(h, len, pw, offset) ==
  ShuffleLoop(h, len - 1, [password |-> pw, hashOffset |-> offset])

\* password.join(''): a hole joins as the empty string
JoinRange(pw, lo, hi) ==
  [k \in 1..(hi - lo) |-> pw[lo + k - 1]]

join(pw, len) ==
  SelectSeq(JoinRange(pw, 0, len), LAMBDA c : c # Hole)

(***************************************************************************)
(* hashToPassword as a sequence of steps                                   *)
(***************************************************************************)
Scratch == [password |-> password, usedPositions |-> usedPositions,
            characterUsage |-> characterUsage, hashOffset |-> hashOffset]

\* the locals hashToPassword creates on entry
NewPassword(len) == [i \in 0..(len - 1) |-> Hole]
NewCharacterUsage == [c \in PoolChars |-> 0]
\* mutant: the cursor of the previous call is kept
StaleHashOffset == hashOffset

NewHashOffset == 0
NewUsedPositions == {}

\* getHashValue has not been called: count is the number of calls, seed and
\* value the argument and the result of the latest one, before the cursor it found
NoDraw == [count |-> 0, seed |-> 0, value |-> 0, before |-> 0]

\* no iteration of the inner loop has run
NoSlot ==
  [type |-> "", i |-> 0, usedBefore |-> {}, offsetBefore |-> 0,
   probed |-> 0, attempts |-> 0, position |-> 0, written |-> FALSE, char |-> Hole]

IdleLocals ==
  /\ activeSets = <<>>
  /\ targetDistribution = [t \in Range(TypeNames) |-> 0]
  /\ maxRepetitions = 0
  /\ password = <<>>
  /\ usedPositions = {}
  /\ characterUsage = NewCharacterUsage
  /\ hashOffset = 0
  /\ setIndex = 0
  /\ slotIndex = 0
  /\ slot = NoSlot

\* the call's scratch state becomes st
SetScratch(st) ==
  /\ password' = st.password
  /\ usedPositions' = st.usedPositions
  /\ characterUsage' = st.characterUsage
  /\ hashOffset' = st.hashOffset

\* the scratch state and the locals of the iteration that has just run
SetPlaced(placed) ==
  /\ SetScratch(placed)
  /\ slot' = placed.slot

\* lines 334-359: the active sets, the target distribution, the budget, fresh scratch state
EnterMapping(h, len, opts) ==
  /\ activeSets' = activeSetsOf(opts)
  /\ targetDistribution' = calculateTargetDistribution(activeSetsOf(opts), len)
  /\ maxRepetitions' = calculateMaxRepetitions(len)
  /\ password' = NewPassword(len)
  /\ characterUsage' = NewCharacterUsage
  /\ hashOffset' = NewHashOffset
  /\ usedPositions' = NewUsedPositions
  /\ setIndex' = 1
  /\ slotIndex' = 0
  /\ slot' = NoSlot
  /\ pc' = "place"

\* a caller invokes hashToPassword(hash, length, options)
StartMapping ==
  /\ pc = "idle"
  /\ Len(results) < MaxCalls
  /\ EnterMapping(hash, length, options)
  /\ UNCHANGED <<mapArgs, results, hcalls, gcall, harness, draw>>

\* one iteration of the inner loop of fillPasswordWithDistribution
PlaceSlot ==
  /\ pc = "place"
  /\ setIndex <= Len(activeSets)
  /\ slotIndex < targetDistribution[activeSets[setIndex].type]
  /\ SetPlaced(PlaceOne(hash, length, maxRepetitions, activeSets[setIndex], slotIndex, Scratch))
  /\ slotIndex' = slotIndex + 1
  /\ UNCHANGED <<mapArgs, pc, activeSets, targetDistribution, maxRepetitions, setIndex, results, hcalls, gcall, harness, draw>>

\* mutant: the outer loop steps over a set
NextSetSkipping ==
  /\ pc = "place"
  /\ setIndex <= Len(activeSets)
  /\ slotIndex >= targetDistribution[activeSets[setIndex].type]
  /\ setIndex' = setIndex + 2
  /\ slotIndex' = 0
  /\ UNCHANGED <<mapArgs, pc, activeSets, targetDistribution, maxRepetitions,
                 password, usedPositions, characterUsage, hashOffset, slot, results,
                 hcalls, gcall, harness, draw>>

\* the outer loop moves to the next set
NextSet ==
  /\ pc = "place"
  /\ setIndex <= Len(activeSets)
  /\ slotIndex >= targetDistribution[activeSets[setIndex].type]
  /\ setIndex' = setIndex + 1
  /\ slotIndex' = 0
  /\ UNCHANGED <<mapArgs, pc, activeSets, targetDistribution, maxRepetitions,
                 password, usedPositions, characterUsage, hashOffset, slot, results,
                 hcalls, gcall, harness, draw>>

\* fillPasswordWithDistribution returns; fillRemainingPositions runs
FillRemaining ==
  /\ pc = "place"
  /\ setIndex > Len(activeSets)
  /\ SetScratch(fillRemainingPositions(hash, length, maxRepetitions, activeSets, 0, Scratch))
  /\ pc' = "shuffle"
  /\ UNCHANGED <<mapArgs, activeSets, targetDistribution, maxRepetitions,
                 setIndex, slotIndex, slot, results, hcalls, gcall, harness, draw>>

SetShuffled(sh) ==
  /\ password' = sh.password
  /\ hashOffset' = sh.hashOffset

Shuffle ==
  /\ pc = "shuffle"
  /\ SetShuffled(shufflePassword(hash, length, password, hashOffset))
  /\ pc' = "join"
  /\ UNCHANGED <<mapArgs, activeSets, targetDistribution, maxRepetitions,
                 usedPositions, characterUsage, setIndex, slotIndex, slot, results,
                 hcalls, gcall, harness, draw>>

\* return password.join(''): the locals of the call are gone
ReturnPassword ==
  /\ pc = "join"
  /\ results' = Append(results, join(password, length))
  /\ pc' = "idle"
  /\ UNCHANGED <<mapArgs, mapLocals, hcalls, gcall, harness, draw>>

(***************************************************************************)
(* HashGenerator.generateHash as a sequence of steps between its awaits    *)
(***************************************************************************)
\* how many generateHash calls are in flight together
NumHashCalls == 2
Procs == 1..NumHashCalls

NoHashOptions == [keywords |-> <<>>, masterSalt |-> Null, iterations |-> Undefined]
NoHashResult == [hash |-> <<>>, iterations |-> Undefined]

\* a call that has not started: its locals do not exist yet
IdleCall(opts) ==
  [pc |-> "idle", options |-> opts, normalizedInputs |-> <<>>,
   effectiveMasterSalt |-> Null, iterations |-> Undefined,
   currentHash |-> <<>>, i |-> 0, iterationSalt |-> <<>>,
   result |-> NoHashResult, error |-> ""]

\* line 85 and what follows it: the loop test, then either the message of
\* iteration i handed to crypto.subtle.digest, or the return of lines 105-109
LoopTop(c, currentHash) ==
  IF LessThanNumber(c.i, c.iterations)
    THEN [c EXCEPT !.pc = "digest",
                   !.iterationSalt = iterationSalt(c.effectiveMasterSalt, c.i,
                                                   c.normalizedInputs, currentHash)]
    ELSE [c EXCEPT !.pc = "done", !.iterationSalt = <<>>,
                   !.result = [hash |-> currentHash, iterations |-> c.iterations]]

\* lines 76-85: the call up to its first await
Entered(opts) ==
  LET validated == validateInputs(opts.keywords)
      normalizedInputs == normalizedInputsOf(validated.inputs)
  IN IF validated.threw
       THEN [IdleCall(opts) EXCEPT !.pc = "failed",
                                   !.error = "Inputs must be a non-empty array"]
       ELSE LoopTop([IdleCall(opts) EXCEPT
                       !.normalizedInputs = normalizedInputs,
                       !.effectiveMasterSalt = opts.masterSalt,
                       !.iterations = IF opts.iterations.kind = "undefined"
                                        THEN Integer(hashIterations)
                                        ELSE opts.iterations,
                       !.currentHash = normalizedInputs],
                    normalizedInputs)

\* lines 96-102: the digest arrives and is hex-encoded; iteration 0 then
\* waits for the timer, every other iteration goes round the loop
Resolved(c) ==
  LET hashArray == digest(encode(c.iterationSalt), Len(c.iterationSalt))
      currentHash == toHex(hashArray, 0)
  IN IF c.i = 0
       THEN [c EXCEPT !.currentHash = currentHash, !.pc = "timer",
                      !.iterationSalt = <<>>]
       ELSE LoopTop([c EXCEPT !.currentHash = currentHash, !.i = c.i + 1],
                    currentHash)

\* mutant: currentHash is one variable shared by the calls
currentHashOfFirstCall(p) == hcalls[1].currentHash

\* line 80: currentHash is a local of the call
currentHashOf(p) == hcalls[p].currentHash

\* a caller invokes generateHash(options)
HashBegin(p) ==
  /\ hcalls[p].pc = "idle"
  /\ hcalls' = [hcalls EXCEPT ![p] = Entered(hcalls[p].options)]
  /\ UNCHANGED <<mapVars, gcall, harness, draw>>

\* await crypto.subtle.digest(...) resolves
DigestResolves(p) ==
  /\ hcalls[p].pc = "digest"
  /\ hcalls' = [hcalls EXCEPT ![p] = Resolved(hcalls[p])]
  /\ UNCHANGED <<mapVars, gcall, harness, draw>>

\* the 1 ms timer after iteration 0 fires
TimerFires(p) ==
  /\ hcalls[p].pc = "timer"
  /\ hcalls' = [hcalls EXCEPT ![p] =
                  LoopTop([hcalls[p] EXCEPT !.i = hcalls[p].i + 1], currentHashOf(p))]
  /\ UNCHANGED <<mapVars, gcall, harness, draw>>

(***************************************************************************)
(* src/utils/input-validator.ts: InputValidator                            *)
(***************************************************************************)
Valid == [isValid |-> TRUE, error |-> "", index |-> 0]
Invalid(message) == [isValid |-> FALSE, error |-> message, index |-> 0]
InvalidAt(message, i) == [isValid |-> FALSE, error |-> message, index |-> i]

validatePasswordLength(len) ==
  IF len.kind # "integer"
    THEN Invalid("Password length must be a valid integer")
  ELSE IF len.value < minPasswordLength
    THEN Invalid("Password length must be at least")
  ELSE IF len.value > maxPasswordLength
    THEN Invalid("Password length cannot exceed")
  ELSE Valid

\* { ...defaults, ...given }: the fields the caller gave override the defaults
Spread(defaults, given) ==
  [f \in DOMAIN defaults |-> IF f \in given.fields THEN given.values[f] ELSE defaults[f]]

validatePasswordOptions(opts) ==
  IF \E f \in DOMAIN opts : opts[f] = TRUE
    THEN Valid
    ELSE Invalid("At least one character type must be enabled")

validateKeywords(keywords) ==
  IF Len(keywords) = 0 THEN Invalid("At least one keyword is required")
  ELSE IF \E i \in 1..Len(keywords) : Len(trim(keywords[i])) = 0
    THEN InvalidAt("Keyword cannot be empty or contain only whitespace",
                   MinOf({i \in 1..Len(keywords) : Len(trim(keywords[i])) = 0}) - 1)
  ELSE Valid

validateMasterSalt(masterSalt) ==
  IF masterSalt.kind = "null" THEN Valid
  ELSE IF Len(masterSalt.chars) = 0
    THEN Invalid("Master salt cannot be empty string (use null instead)")
  ELSE Valid

validateAllInputs(keywords, len, opts, masterSalt) ==
  IF ~validateKeywords(keywords).isValid THEN validateKeywords(keywords)
  ELSE IF ~validatePasswordLength(len).isValid THEN validatePasswordLength(len)
  ELSE IF ~validatePasswordOptions(opts).isValid THEN validatePasswordOptions(opts)
  ELSE IF ~validateMasterSalt(masterSalt).isValid THEN validateMasterSalt(masterSalt)
  ELSE Valid

(***************************************************************************)
(* PasswordGenerator.generatePassword: its request and its call record     *)
(***************************************************************************)
\* the options object of a caller that sets none of the include flags
NoOptions == [fields |-> {}, values |-> DEFAULT_PASSWORD_OPTIONS]

NoRequest ==
  [keywords |-> <<>>, length |-> Undefined, options |-> NoOptions,
   masterSalt |-> Null, iterations |-> Undefined]

NoDiversity == [totalUniqueCharacters |-> 0, maxRepetitions |-> 0, diversityRatio |-> 0]

NoPasswordResult ==
  [password |-> <<>>, length |-> 0, options |-> DEFAULT_PASSWORD_OPTIONS,
   metadata |-> [hashIterations |-> Undefined,
                 characterDistribution |-> [t \in Range(TypeNames) |-> 0],
                 characterDiversity |-> NoDiversity]]

\* pending: the NuwaultCore.generatePassword calls the caller has yet to make
IdleGeneration(request) ==
  [pc |-> "idle", options |-> request, error |-> "", result |-> NoPasswordResult,
   pending |-> <<>>]

normalizeOptions(o) ==
  [keywords |-> o.keywords,
   length |-> NumberOr(o.length, defaultPasswordLength),
   options |-> Spread(DEFAULT_PASSWORD_OPTIONS, o.options),
   masterSalt |-> IF TruthyString(o.masterSalt) THEN o.masterSalt ELSE Null,
   iterations |-> NumberOr(o.iterations, hashIterations)]

validateGenerationOptions(o) ==
  validateAllInputs(o.keywords, o.length, o.options, o.masterSalt)

(***************************************************************************)
(* The compatibility checks: their locals and reports                      *)
(***************************************************************************)
NoReport ==
  [isCompatible |-> FALSE, testedVectors |-> 0, passedVectors |-> 0, failedVectors |-> <<>>]

\* results and passedCount are the locals of the loop, awaited the values the
\* awaited calls have resolved to, report the returned object
IdleCheck ==
  [pc |-> "idle", i |-> 0, results |-> <<>>, passedCount |-> 0, awaited |-> <<>>,
   report |-> NoReport]

\* a promise of a boolean; threw tells that the call awaited inside rejected
Pending == [settled |-> FALSE, value |-> FALSE, threw |-> FALSE]
Settled(b, threw) == [settled |-> TRUE, value |-> b, threw |-> threw]

IdleQuick == [pc |-> "idle", hashCheck |-> Pending, passwordCheck |-> Pending, result |-> Pending]

NoOverall == [pc |-> "idle", isFullyCompatible |-> FALSE]

\* what is known of the platform the library runs on: for every test vector the
\* outcome of generateHash and of generatePassword, or nothing (any outcome)
UnknownPlatform == [hash |-> <<>>, password |-> <<>>]

\* the checks and the overall object of the call of validateAlgorithmCompatibility
\* before the one under way
NoPrevious == [hashCheck |-> IdleCheck, passwordCheck |-> IdleCheck, overall |-> NoOverall]

\* validateFullAlgorithm: the two promises it awaits and the object it returns
IdleFull ==
  [pc |-> "idle", hashCheck |-> Pending, passwordCheck |-> Pending,
   isFullyCompatible |-> FALSE, hashCompatibility |-> FALSE,
   passwordCompatibility |-> FALSE]

\* run counts the calls of validateAlgorithmCompatibility
IdleHarness ==
  [hashCheck |-> IdleCheck, passwordCheck |-> IdleCheck, overall |-> NoOverall,
   quick |-> IdleQuick, full |-> IdleFull, platform |-> UnknownPlatform, run |-> 0,
   previous |-> NoPrevious]

\* no hashToPassword call is under way and none has returned
MapIdle ==
  /\ hash = <<>>
  /\ length = 0
  /\ options = DEFAULT_PASSWORD_OPTIONS
  /\ pc = "idle"
  /\ IdleLocals
  /\ results = <<>>

MapNext ==
  \/ StartMapping
  \/ PlaceSlot
  \/ NextSet
  \/ FillRemaining
  \/ Shuffle
  \/ ReturnPassword

MapInit ==
  /\ hash \in DigestSamples
  /\ length \in LengthSamples
  /\ options \in OptionSamples
  /\ pc = "idle"
  /\ IdleLocals
  /\ results = <<>>
  /\ hcalls = [p \in Procs |-> IdleCall(NoHashOptions)]
  /\ gcall = IdleGeneration(NoRequest)
  /\ harness = IdleHarness
  /\ draw = NoDraw

SpecMap == MapInit /\ [][MapNext]_vars

\* one hashToPassword call, step by step
StartOnce == results = <<>> /\ StartMapping

OnceNext ==
  \/ StartOnce
  \/ PlaceSlot
  \/ NextSet
  \/ FillRemaining
  \/ Shuffle
  \/ ReturnPassword

OnceInit ==
  /\ \/ hash \in DigestSamples /\ length \in LengthSamples
     \/ hash = ScanDigest /\ length = minPasswordLength
  /\ options \in OptionSamples
  /\ pc = "idle"
  /\ IdleLocals
  /\ results = <<>>
  /\ hcalls = [p \in Procs |-> IdleCall(NoHashOptions)]
  /\ gcall = IdleGeneration(NoRequest)
  /\ harness = IdleHarness
  /\ draw = NoDraw

SpecOnce == OnceInit /\ [][OnceNext]_vars

(***************************************************************************)
(* hashToPassword with lengths below minPasswordLength and short strings   *)
(***************************************************************************)
\* the largest length of the calls with short passwords
MaxSmallLength == 6

\* hash strings of a few characters, and a digest
SmallHashes ==
  { <<"0">>,
    <<"f", "3">>,
    <<"0", "3", "1", "1", "4", "4", "0", "0", "0">>,
    <<"4", "1", "4", "4", "1", "4", "2", "3", "4", "4", "3", "4", "2">>,
    VectorDigest0 }

SmallInit ==
  /\ hash \in SmallHashes
  /\ length \in 1..MaxSmallLength
  /\ options \in OptionSamples
  /\ pc = "idle"
  /\ IdleLocals
  /\ results = <<>>
  /\ hcalls = [p \in Procs |-> IdleCall(NoHashOptions)]
  /\ gcall = IdleGeneration(NoRequest)
  /\ harness = IdleHarness
  /\ draw = NoDraw

SpecSmall == SmallInit /\ [][OnceNext]_vars

(***************************************************************************)
(* getHashValue called again and again over one hash string                *)
(***************************************************************************)
\* the largest number of getHashValue calls followed one by one
MaxDraws == 8

\* strings handed to hashToPassword: digests, and strings that are not digests
DrawStrings ==
  { VectorDigest0,
    <<"0">>,
    <<"0", "0", "1">>,
    <<"f", "f", "f", "f">>,
    <<"1", "g">>,
    <<"g", "h">>,
    <<"-", "1", "f", "0">>,
    <<"-", "0", "f">>,
    <<"+", "a", "0", "-", "0">>,
    <<" ", "7", "\t", "c", "2">>,
    <<"0", "x", "1", "A", "0", "X">> }

\* seeds of the kinds the mapper passes: none, small ones, those of the passes
DrawSeeds == {0, 1, 2, 500, 108000 + 100 + 7, 115000 * 2 + 300}

\* getHashValue(seed) is called
Draw ==
  /\ pc = "idle"
  /\ draw.count < MaxDraws
  /\ \E seed \in DrawSeeds :
       draw' = [count |-> draw.count + 1, seed |-> seed,
                value |-> getHashValue(hash, hashOffset, seed), before |-> hashOffset]
  /\ hashOffset' = advanceOffset(hash, hashOffset)
  /\ UNCHANGED <<mapArgs, pc, activeSets, targetDistribution, maxRepetitions,
                 password, usedPositions, characterUsage, setIndex, slotIndex, slot,
                 results, hcalls, gcall, harness>>

DrawsInit ==
  /\ hash \in DrawStrings
  /\ length = defaultPasswordLength
  /\ options = DEFAULT_PASSWORD_OPTIONS
  /\ pc = "idle"
  /\ IdleLocals
  /\ results = <<>>
  /\ hcalls = [p \in Procs |-> IdleCall(NoHashOptions)]
  /\ gcall = IdleGeneration(NoRequest)
  /\ harness = IdleHarness
  /\ draw = NoDraw

DrawsNext == Draw

SpecDraws == DrawsInit /\ [][DrawsNext]_vars

(***************************************************************************)
(* Metrics of a returned password                                          *)
(***************************************************************************)
CountOf(pw, c) == Cardinality({i \in DOMAIN pw : pw[i] = c})

\* calculateCharacterDiversity: the unique count and the largest count
totalUniqueCharacters(pw) == Cardinality(Range(pw))
maxRepetitionsOf(pw) ==
  LET repetitionCounts == {CountOf(pw, c) : c \in Range(pw)}
  IN IF pw = <<>> THEN 0
     ELSE CHOOSE m \in repetitionCounts : \A x \in repetitionCounts : x <= m

\* calculateActualDistribution: the regular expression tests, in order
classOf(c) ==
  IF c \in Range(UPPERCASE) THEN "uppercase"
  ELSE IF c \in Range(LOWERCASE) THEN "lowercase"
  ELSE IF c \in Range(NUMBERS) THEN "numbers"
  ELSE "symbols"

calculateActualDistribution(pw) ==
  [t \in Range(TypeNames) |-> Cardinality({i \in DOMAIN pw : classOf(pw[i]) = t})]

\* Math.round(x): the nearest integer, halves upwards
RoundedQuotient(a, b) == (2 * a + b) \div (2 * b)

\* Math.round(diversityRatio * 1000) / 1000, kept in thousandths; the quotient
\* is not a number for the empty password, which no call returns
diversityRatio(pw) ==
  IF pw = <<>> THEN 0 ELSE RoundedQuotient(1000 * totalUniqueCharacters(pw), Len(pw))

calculateCharacterDiversity(pw) ==
  [totalUniqueCharacters |-> totalUniqueCharacters(pw),
   maxRepetitions |-> maxRepetitionsOf(pw),
   diversityRatio |-> diversityRatio(pw)]

(***************************************************************************)
(* PasswordGenerator.generatePassword as a sequence of steps               *)
(***************************************************************************)
\* lines 127-142: normalize, validate, throw or call generateHash
GenerateBegin ==
  /\ gcall.pc = "idle"
  /\ IF validateGenerationOptions(normalizeOptions(gcall.options)).isValid
       THEN /\ gcall' = [gcall EXCEPT !.pc = "hashing"]
            /\ hcalls' = [hcalls EXCEPT ![1] =
                 Entered([keywords |-> normalizeOptions(gcall.options).keywords,
                          masterSalt |-> normalizeOptions(gcall.options).masterSalt,
                          iterations |-> normalizeOptions(gcall.options).iterations])]
       ELSE /\ gcall' = [gcall EXCEPT
                 !.pc = "failed",
                 !.error = validateGenerationOptions(normalizeOptions(gcall.options)).error]
            /\ UNCHANGED hcalls
  /\ UNCHANGED <<mapVars, harness, draw>>

\* lines 142-148: the awaited hash arrives and hashToPassword is called
GenerateHashed ==
  /\ gcall.pc = "hashing"
  /\ hcalls[1].pc \in {"done", "failed"}
  /\ IF hcalls[1].pc = "failed"
       THEN /\ gcall' = [gcall EXCEPT !.pc = "failed", !.error = hcalls[1].error]
            /\ UNCHANGED mapVars
       ELSE /\ gcall' = [gcall EXCEPT !.pc = "mapping"]
            /\ hash' = hcalls[1].result.hash
            /\ length' = normalizeOptions(gcall.options).length.value
            /\ options' = normalizeOptions(gcall.options).options
            /\ EnterMapping(hcalls[1].result.hash,
                            normalizeOptions(gcall.options).length.value,
                            normalizeOptions(gcall.options).options)
            /\ UNCHANGED results
  /\ UNCHANGED <<hcalls, harness, draw>>

\* lines 150-163: the result and its metadata
PasswordResult(pw, opts, iterations) ==
  [password |-> pw, length |-> Len(pw), options |-> opts,
   metadata |-> [hashIterations |-> iterations,
                 characterDistribution |-> calculateActualDistribution(pw),
                 characterDiversity |-> calculateCharacterDiversity(pw)]]

GenerateReturn ==
  /\ gcall.pc = "mapping"
  /\ pc = "idle"
  /\ gcall' = [gcall EXCEPT
       !.pc = "returned",
       !.result = PasswordResult(results[Len(results)], options,
                                 hcalls[1].result.iterations)]
  /\ UNCHANGED <<mapVars, hcalls, harness, draw>>

(***************************************************************************)
(* Requests                                                                *)
(***************************************************************************)
KeywordTest == <<"t", "e", "s", "t">>
KeywordAb == <<"a", "b">>
KeywordBlank == <<" ", "\t">>
KeywordPadded == <<" ", "T", "e">>
KeywordUpper == <<"S", "T", " ">>

KeywordA == <<"a">>
KeywordB == <<"b">>
KeywordPipe == <<"a", "|", "b">>
KeywordCafe == <<"C", "a", "f", "é">>
KeywordCafePlain == <<"c", "a", "f", "e">>

\* the keyword lists of generatePassword requests
GenerationKeywords == {<<KeywordTest>>, <<KeywordAb>>, <<KeywordBlank>>, <<>>}

KeywordSamples ==
  GenerationKeywords \cup
  {<<KeywordPadded, KeywordBlank, KeywordUpper>>, <<KeywordA, KeywordB>>,
   <<KeywordPipe>>, <<KeywordCafe>>, <<KeywordCafePlain>>}

\* the salts of generatePassword requests
GenerationSalts == {Null, String(<<"S", "1">>)}

SaltSamples == GenerationSalts \cup {String(<<>>), String(<<"S", "2">>)}

\* the largest iteration count of the interleaved calls
MaxIterations == 2

HashRequests ==
  [keywords : KeywordSamples, masterSalt : SaltSamples,
   iterations : {Integer(n) : n \in 0..MaxIterations}]

\* the requests of the calls that run beside the first one
BackgroundRequests ==
  {r \in HashRequests : /\ r.keywords = <<KeywordTest>>
                        /\ r.masterSalt = Null
                        /\ r.iterations.value >= 1}

LengthRequests ==
  {Undefined, NaN, Fraction(minPasswordLength), Integer(0),
   Integer(minPasswordLength - 1), Integer(minPasswordLength),
   Integer(maxPasswordLength), Integer(maxPasswordLength + 1)}

OptionRequests ==
  {NoOptions,
   [fields |-> {"includeSymbols"},
    values |-> [DEFAULT_PASSWORD_OPTIONS EXCEPT !.includeSymbols = FALSE]]}

IterationRequests == {Undefined} \cup {Integer(n) : n \in 0..MaxIterations}

\* the requests of generatePassword; the default iteration count is run with
\* one keyword list, no salt and the default classes
GenerationRequests ==
  {r \in [keywords : GenerationKeywords,
          length : LengthRequests, options : OptionRequests,
          masterSalt : GenerationSalts, iterations : IterationRequests] :
     ~TruthyNumber(r.iterations) =>
        /\ r.keywords = <<KeywordTest>>
        /\ r.masterSalt = Null
        /\ r.options = NoOptions
        /\ r.length \in {Undefined, Integer(minPasswordLength)}}

(***************************************************************************)
(* Specifications of the deriver and of generatePassword                   *)
(***************************************************************************)
\* the requests beside which the other calls run any number of iterations; beside
\* the remaining ones they run a single iteration
InterleavedRequests ==
  {r \in HashRequests : r.keywords \in GenerationKeywords /\ r.masterSalt \in GenerationSalts}

BackgroundRequestsFor(first) ==
  IF first \in InterleavedRequests
  THEN BackgroundRequests
  ELSE {r \in BackgroundRequests : r.iterations = Integer(1)}

HashInit ==
  /\ MapIdle
  /\ \E first \in HashRequests :
       \E others \in [Procs \ {1} -> BackgroundRequestsFor(first)] :
         hcalls = [p \in Procs |-> IdleCall(IF p = 1 THEN first ELSE others[p])]
  /\ gcall = IdleGeneration(NoRequest)
  /\ harness = IdleHarness
  /\ draw = NoDraw

HashNext ==
  \/ \E p \in Procs : HashBegin(p)
  \/ \E p \in Procs : DigestResolves(p)
  \/ \E p \in Procs : TimerFires(p)

SpecHash == HashInit /\ [][HashNext]_vars

GenerateInit ==
  /\ MapIdle
  /\ hcalls = [p \in Procs |-> IdleCall(NoHashOptions)]
  /\ gcall \in {IdleGeneration(r) : r \in GenerationRequests}
  /\ harness = IdleHarness
  /\ draw = NoDraw

GenerateNext ==
  \/ GenerateBegin
  \/ \E p \in Procs : DigestResolves(p)
  \/ \E p \in Procs : TimerFires(p)
  \/ GenerateHashed
  \/ PlaceSlot
  \/ NextSet
  \/ FillRemaining
  \/ Shuffle
  \/ ReturnPassword
  \/ GenerateReturn

SpecGenerate == GenerateInit /\ [][GenerateNext]_vars

(***************************************************************************)
(* The NuwaultCore class and generatePasswordLegacy                        *)
(***************************************************************************)
\* a value that was not passed
Absent == [kind |-> "undefined", chars |-> <<>>]

\* new NuwaultCore(customConfig): the constructor has an empty body, the
\* instance keeps no field of its configuration
NuwaultCore(customConfig) == [fields |-> {}]

NoConfig == [SECURITY_CONFIG |-> [masterSalt |-> Absent]]
SaltConfig(salt) == [SECURITY_CONFIG |-> [masterSalt |-> salt]]

\* the options argument of the legacy signature, {} by default
LegacyOptions(len, masterSalt) ==
  [length |-> len, classes |-> NoOptions, masterSalt |-> masterSalt]

\* x ?? null for a salt
OrNull(x) == IF x.kind = "undefined" THEN Null ELSE x

\* the request generatePasswordLegacy hands to PasswordGenerator.generatePassword
generatePasswordLegacy(inputs, o) ==
  [keywords |-> inputs,
   length |-> IF o.length.kind = "undefined" THEN Integer(defaultPasswordLength)
              ELSE o.length,
   options |-> [fields |-> DOMAIN DEFAULT_PASSWORD_OPTIONS,
                values |-> Spread(DEFAULT_PASSWORD_OPTIONS, o.classes)],
   masterSalt |-> OrNull(o.masterSalt),
   iterations |-> Undefined]

\* instance.generatePassword(inputs, options) is called: it returns
\* generatePasswordLegacy(inputs, options) and reads nothing of the instance
NuwaultCoreGeneratePassword ==
  /\ gcall.pc \in {"caller", "returned", "failed"}
  /\ gcall.pending # <<>>
  /\ gcall' = [IdleGeneration(generatePasswordLegacy(Head(gcall.pending).inputs,
                                                    Head(gcall.pending).options))
                 EXCEPT !.pending = Tail(gcall.pending)]
  /\ UNCHANGED <<mapVars, hcalls, harness, draw>>

\* one generatePassword call on an instance made with customConfig
InstanceCall(customConfig, inputs, o) ==
  [instance |-> NuwaultCore(customConfig), inputs |-> inputs, options |-> o]

\* the three calls of the documented global-salt usage, one after the other:
\* the salt in the constructor, the same salt per call, no salt
SaltScenario(inputs, len, salt) ==
  << InstanceCall(SaltConfig(salt), inputs, LegacyOptions(len, Absent)),
     InstanceCall(NoConfig, inputs, LegacyOptions(len, salt)),
     InstanceCall(NoConfig, inputs, LegacyOptions(len, Absent)) >>

InstanceInputs == {<<KeywordTest>>, <<KeywordTest, KeywordAb>>}
InstanceLengths == {Undefined, Integer(minPasswordLength)}

InstanceInit ==
  /\ MapIdle
  /\ hcalls = [p \in Procs |-> IdleCall(NoHashOptions)]
  /\ \E inputs \in InstanceInputs, len \in InstanceLengths :
       gcall = [IdleGeneration(NoRequest) EXCEPT
                  !.pc = "caller",
                  !.pending = SaltScenario(inputs, len, String(<<"S", "1">>))]
  /\ harness = IdleHarness
  /\ draw = NoDraw

InstanceNext ==
  \/ NuwaultCoreGeneratePassword
  \/ GenerateNext

SpecInstance == InstanceInit /\ [][InstanceNext]_vars

(***************************************************************************)
(* Properties of the mapper                                                *)
(***************************************************************************)
\* the calls that have returned, inspected at the moment a call has returned
Returned == IF pc = "idle" THEN DOMAIN results ELSE {}

\* the pools of the classes the options enable, all four when none is enabled
EnabledChars(opts) ==
  LET enabled == {t \in Range(TypeNames) : Included(opts, t)}
  IN IF enabled = {} THEN PoolChars
     ELSE UNION {Range(CHARACTER_SETS(t)) : t \in enabled}

AllFourClasses == Len(activeSetsOf(options)) = 4

Diversity(pw) ==
  [totalUniqueCharacters |-> totalUniqueCharacters(pw), maxRepetitions |-> maxRepetitionsOf(pw)]

\* a call has just been entered: nothing has been drawn or placed yet
JustStarted == pc = "place" /\ setIndex = 1 /\ slotIndex = 0

\* C1: every call of hashToPassword on the same digest, length and options returns
\* the same password, with the same per-class counts and diversity metrics, and
\* every call starts from a cursor of 0, an empty CharacterUsage and no used position.
C1_Deterministic ==
  /\ \A i, j \in Returned :
       /\ results[i] = results[j]
       /\ calculateActualDistribution(results[i]) = calculateActualDistribution(results[j])
       /\ Diversity(results[i]) = Diversity(results[j])
  /\ JustStarted =>
       /\ hashOffset = 0
       /\ usedPositions = {}
       /\ \A c \in PoolChars : characterUsage[c] = 0

C1_Witness ==
  /\ pc = "idle"
  /\ Len(results) >= 2
  /\ hashOffset # 0
  /\ \E c \in PoolChars : characterUsage[c] > 0

\* C3: after the placement and fill passes every position holds a character, and
\* the returned password has exactly length characters.
C3_LengthFidelity ==
  /\ pc \in {"shuffle", "join"} => \A i \in 0..(length - 1) : password[i] # Hole
  /\ \A k \in Returned : Len(results[k]) = length

C3_Witness ==
  /\ pc = "idle"
  /\ results # <<>>
  /\ length = maxPasswordLength
  /\ Len(results[1]) = maxPasswordLength

\* C4: every character of a returned password is in the pool of a class the options
\* enable (all four classes when none is enabled).
C4_OnlyEnabledClasses ==
  \A k \in Returned : Range(results[k]) \subseteq EnabledChars(options)

C4_Witness ==
  /\ pc = "idle"
  /\ results # <<>>
  /\ ~options.includeSymbols
  /\ options.includeUppercase /\ options.includeLowercase /\ options.includeNumbers
  /\ Range(results[1]) \cap Range(SYMBOLS) = {}

\* C5: no character occurs more than RepetitionBudget(length) + 1 times in a
\* returned password.
C5_RepetitionBound ==
  \A k \in Returned : maxRepetitionsOf(results[k]) <= calculateMaxRepetitions(length) + 1

\* the budget is exceeded by one: every character of the pool was saturated
C5_Witness ==
  /\ pc = "idle"
  /\ results # <<>>
  /\ maxRepetitionsOf(results[1]) = calculateMaxRepetitions(length) + 1

\* C6: a class that is active and has a target count above zero has at least one
\* character in the returned password.
C6_ClassCoverage ==
  \A k \in Returned :
    \A s \in DOMAIN activeSetsOf(options) :
      LET set == activeSetsOf(options)[s]
      IN calculateTargetDistribution(activeSetsOf(options), length)[set.type] > 0
           => Range(results[k]) \cap Range(set.chars) # {}

C6_Witness ==
  /\ pc = "idle"
  /\ results # <<>>
  /\ AllFourClasses
  /\ \A t \in Range(TypeNames) :
       /\ calculateTargetDistribution(activeSetsOf(options), length)[t] > 0
       /\ Range(results[1]) \cap Range(CHARACTER_SETS(t)) # {}

RECURSIVE RunAlone(_)
RunAlone(c) ==
  IF c.pc \in {"done", "failed"} THEN c
  ELSE IF c.pc = "digest" THEN RunAlone(Resolved(c))
  ELSE RunAlone(LoopTop([c EXCEPT !.i = c.i + 1], c.currentHash))

generateHashAlone(opts) == RunAlone(Entered(opts))

\* a string of exactly DigestLength lowercase hexadecimal characters
IsDigest(s) ==
  /\ Len(s) = DigestLength
  /\ \A k \in 1..Len(s) : s[k] \in Range(HexDigits)

\* what validateInputs keeps of the keywords of call p
KeptKeywords(p) == validateInputs(hcalls[p].options.keywords).inputs

\* C2: for fixed (keywords, salt, iterations) a generateHash call returns the
\* digest it returns when it runs alone, whatever the other calls do at its
\* await points and whenever its timer fires; two calls with the same
\* arguments return the same digest.
C2_InterleavingFree ==
  /\ \A p \in Procs :
       hcalls[p].pc = "done" =>
         hcalls[p].result.hash = generateHashAlone(hcalls[p].options).result.hash
  /\ \A p, q \in Procs :
       (/\ hcalls[p].pc = "done" /\ hcalls[q].pc = "done"
        /\ hcalls[p].options = hcalls[q].options)
       => hcalls[p].result.hash = hcalls[q].result.hash

\* one call ran from its timer to its end while another call with other
\* arguments was waiting for its own timer
C2_Witness ==
  /\ hcalls[1].pc = "done"
  /\ hcalls[1].iterations = Integer(MaxIterations)
  /\ hcalls[2].pc = "timer"
  /\ hcalls[2].options # hcalls[1].options
  /\ IsDigest(hcalls[1].result.hash)

\* C8: generateHash fails, and returns no digest, when no keyword is left
\* after the blank entries are dropped, or when the normalized keywords joined
\* together have fewer than 3 characters.
C8_RejectsBlankOrShort ==
  \A p \in Procs :
    (/\ hcalls[p].pc # "idle"
     /\ \/ KeptKeywords(p) = <<>>
        \/ Len(normalizedInputsOf(KeptKeywords(p))) < 3)
    => /\ hcalls[p].pc = "failed"
       /\ hcalls[p].result = NoHashResult

\* C9: a requested length that is not an integer within
\* minPasswordLength..maxPasswordLength makes generatePassword reject before
\* generateHash or hashToPassword is invoked, and no password is produced.
C9_RejectsBadLength ==
  (/\ gcall.options.length.kind # "undefined"
   /\ ~(/\ gcall.options.length.kind = "integer"
        /\ gcall.options.length.value \in minPasswordLength..maxPasswordLength))
  => /\ gcall.pc \in {"idle", "failed"}
     /\ hcalls[1].pc = "idle"
     /\ pc = "idle"
     /\ results = <<>>
     /\ gcall.result = NoPasswordResult

\* C10: for keywords that pass validation, every salt and every iteration
\* count from 0 on, the digest generateHash returns is a string of exactly
\* DigestLength lowercase hexadecimal characters.
C10_DigestShape ==
  \A p \in Procs :
    (/\ hcalls[p].pc = "done"
     /\ validateKeywords(hcalls[p].options.keywords).isValid)
    => IsDigest(hcalls[p].result.hash)

\* a generateHash call run alone up to the await of iteration i
RECURSIVE RunAloneTo(_, _)
RunAloneTo(c, i) ==
  IF c.pc \in {"done", "failed"} \/ (c.pc = "digest" /\ c.i = i) THEN c
  ELSE IF c.pc = "digest" THEN RunAloneTo(Resolved(c), i)
  ELSE RunAloneTo(LoopTop([c EXCEPT !.i = c.i + 1], c.currentHash), i)

\* the message iteration i of a call with these options hashes
MessageAt(opts, i) == RunAloneTo(Entered(opts), i).iterationSalt

\* the call whose request ranges over every sample; the calls beside it repeat
\* one of its requests
Sampled(p) == p = 1

\* the salt as the deriver sees it: the empty string is no salt
SaltOf(masterSalt) == IF TruthyString(masterSalt) THEN masterSalt.chars ELSE <<>>

\* C11: for fixed keywords and a fixed iteration count >= 1, a call hashes at
\* every iteration a message different from the one the same call with any
\* other salt hashes at that iteration (no salt against a salt included).
C11_SaltSensitive ==
  \A p \in Procs :
    Sampled(p) /\ hcalls[p].pc = "digest" =>
      \A other \in SaltSamples :
        SaltOf(other) # SaltOf(hcalls[p].options.masterSalt) =>
          MessageAt([hcalls[p].options EXCEPT !.masterSalt = other], hcalls[p].i)
            # hcalls[p].iterationSalt

\* a salted call is about to hash the message of an iteration after the first
C11_Witness ==
  \E p \in Procs :
    /\ hcalls[p].pc = "digest"
    /\ hcalls[p].i >= 1
    /\ TruthyString(hcalls[p].options.masterSalt)
    /\ Len(hcalls[p].currentHash) = DigestLength

\* the normalized keywords of a list, blank entries dropped, in order
NormalizedSequence(keywords) == mapNormalizeInput(validateInputs(keywords).inputs)

\* the keyword lists generateHash accepts
AcceptedKeywords == {k \in KeywordSamples : ~validateInputs(k).threw}

\* no normalized keyword of the list contains the delimiter
DelimiterFree(keywords) ==
  \A j \in 1..Len(NormalizedSequence(keywords)) :
    "|" \notin Range(NormalizedSequence(keywords)[j])

\* the material and the message of call p differ from those of the same call
\* made with the keyword list other
DiffersFrom(p, other) ==
  /\ normalizedInputsOf(validateInputs(other).inputs) # hcalls[p].normalizedInputs
  /\ MessageAt([hcalls[p].options EXCEPT !.keywords = other], hcalls[p].i)
       # hcalls[p].iterationSalt

\* C12 as claimed: for a fixed salt and iteration count >= 1, two keyword lists
\* whose sequences of normalized keywords differ have different joined
\* material and different messages at every iteration.
C12_KeywordSensitive ==
  \A p \in Procs :
    Sampled(p) /\ hcalls[p].pc = "digest" =>
      \A other \in AcceptedKeywords :
        NormalizedSequence(other) # NormalizedSequence(hcalls[p].options.keywords)
          => DiffersFrom(p, other)

\* C12 amended: the same, for keyword lists none of whose normalized keywords
\* contains the delimiter '|'.
C12_KeywordSensitiveNoDelimiter ==
  \A p \in Procs :
    Sampled(p) /\ hcalls[p].pc = "digest" =>
      \A other \in AcceptedKeywords :
        (/\ NormalizedSequence(other) # NormalizedSequence(hcalls[p].options.keywords)
         /\ DelimiterFree(other)
         /\ DelimiterFree(hcalls[p].options.keywords))
        => DiffersFrom(p, other)

\* a call with two keywords is about to hash the message of a later iteration
C12_Witness ==
  \E p \in Procs :
    /\ hcalls[p].pc = "digest"
    /\ hcalls[p].i >= 1
    /\ hcalls[p].options.keywords = <<KeywordA, KeywordB>>
    /\ hcalls[p].normalizedInputs = <<"a", "|", "b">>

\* the documented removal of diacritics, one character
BaseLetter(c) == IF c = "é" THEN "e" ELSE IF c = "É" THEN "E" ELSE c

RECURSIVE stripDiacritics(_)
stripDiacritics(s) ==
  IF s = <<>> THEN <<>> ELSE <<BaseLetter(Head(s))>> \o stripDiacritics(Tail(s))

\* the documented normalization: trim, lowercase, diacritics removed
RECURSIVE DocumentedSequence(_)
DocumentedSequence(inputs) ==
  IF inputs = <<>> THEN <<>>
  ELSE <<stripDiacritics(normalizeInput(Head(inputs)))>>
       \o DocumentedSequence(Tail(inputs))

\* C13: two keyword lists whose elements are equal after trimming,
\* lowercasing and removing diacritics give the same digest, and
\* normalizeInput is idempotent.
C13_NormalizationEquivalence ==
  \A p \in Procs :
    (hcalls[p].pc = "done" /\ LessThanNumber(0, hcalls[p].iterations)) =>
      /\ \A other \in AcceptedKeywords :
           DocumentedSequence(validateInputs(other).inputs)
             = DocumentedSequence(KeptKeywords(p))
           => generateHashAlone([hcalls[p].options EXCEPT !.keywords = other]).result.hash
                = hcalls[p].result.hash
      /\ \A j \in 1..Len(KeptKeywords(p)) :
           normalizeInput(normalizeInput(KeptKeywords(p)[j]))
             = normalizeInput(KeptKeywords(p)[j])


(***************************************************************************)
(* The set-up of hashToPassword over every length                          *)
(***************************************************************************)
\* lengths handed to the exported hashToPassword, which does not validate them
MaxTargetLength == 130

TargetsInit ==
  /\ hash = VectorDigest0
  /\ length \in 1..MaxTargetLength
  /\ options \in OptionSamples
  /\ pc = "idle"
  /\ IdleLocals
  /\ results = <<>>
  /\ hcalls = [p \in Procs |-> IdleCall(NoHashOptions)]
  /\ gcall = IdleGeneration(NoRequest)
  /\ harness = IdleHarness
  /\ draw = NoDraw

TargetsNext == StartMapping

SpecTargets == TargetsInit /\ [][TargetsNext]_vars

\* the remainder calculateTargetDistribution has to place for the call in progress
RemainderOf(sets, len) == len - SumDistribution(FlooredDistribution(sets, len))

\* C14: for every length >= 1 and every choice of classes the four counts of
\* calculateTargetDistribution are non-negative and sum to the length.
C14_SumsToLength ==
  pc = "place" =>
    /\ \A t \in Range(TypeNames) : targetDistribution[t] \in Nat
    /\ SumDistribution(targetDistribution) = length

C14_Witness ==
  /\ pc = "place"
  /\ RemainderOf(activeSets, length) > 0
  /\ Len(activeSets) < 4
  /\ SumDistribution(targetDistribution) = length

\* the positions in class order of the classes with the largest floored count
LargestClasses(floored) ==
  {k \in 1..Len(TypeNames) :
     \A j \in 1..Len(TypeNames) : floored[TypeNames[j]] <= floored[TypeNames[k]]}

\* the counts when the whole remainder is added to the class at position k
RemainderAt(sets, len, k) ==
  [t \in Range(TypeNames) |->
     FlooredDistribution(sets, len)[t]
       + (IF t = TypeNames[k] THEN RemainderOf(sets, len) ELSE 0)]

\* C15 as stated: the whole remainder goes to the first, in class order, of the
\* classes with the largest floored count.
C15_RemainderToFirstLargest ==
  pc = "place" =>
    targetDistribution =
      RemainderAt(activeSets, length,
                  MinOfIndex(LargestClasses(FlooredDistribution(activeSets, length))))

\* C15 amended: the whole remainder goes to one class, the last, in class
\* order, of the classes with the largest floored count.
C15_RemainderToLastLargest ==
  pc = "place" =>
    targetDistribution =
      RemainderAt(activeSets, length,
                  MaxOfIndex(LargestClasses(FlooredDistribution(activeSets, length))))

C15_Witness ==
  /\ pc = "place"
  /\ RemainderOf(activeSets, length) > 0
  /\ Cardinality(LargestClasses(FlooredDistribution(activeSets, length))) > 1
  /\ targetDistribution["symbols"] > targetDistribution["uppercase"]

\* the classes hashToPassword works with: the enabled ones, all four when none is
EnabledTypes(opts) ==
  IF \A t \in Range(TypeNames) : ~Included(opts, t)
  THEN Range(TypeNames)
  ELSE {t \in Range(TypeNames) : Included(opts, t)}

\* the floored counts as the profiles are documented
DocumentedFloors(opts, len) ==
  LET active == EnabledTypes(opts)
  IN IF Cardinality(active) = 4
     THEN IF len >= 64
          THEN [uppercase |-> (len * 20) \div 100, lowercase |-> (len * 35) \div 100,
                numbers |-> (len * 20) \div 100, symbols |-> (len * 25) \div 100]
          ELSE IF len >= 32
          THEN [uppercase |-> (len * 25) \div 100, lowercase |-> (len * 35) \div 100,
                numbers |-> (len * 20) \div 100, symbols |-> (len * 20) \div 100]
          ELSE [t \in Range(TypeNames) |-> len \div 4]
     ELSE [t \in Range(TypeNames) |->
             IF t \in active THEN len \div Cardinality(active) ELSE 0]

\* C16: before the remainder is added the counts are the documented floors of
\* the long (from 64), medium (from 32) and short profile, or an even split over
\* the active classes when fewer than four are active; the counts of the call in
\* progress are these floors plus the remainder.
C16_FlooredCounts ==
  /\ mediumThreshold = 32
  /\ longThreshold = 64
  /\ pc = "place" =>
       /\ FlooredDistribution(activeSets, length) = DocumentedFloors(options, length)
       /\ \A t \in Range(TypeNames) :
            targetDistribution[t] >= DocumentedFloors(options, length)[t]
       /\ SumDistribution(targetDistribution) - SumDistribution(DocumentedFloors(options, length))
            = RemainderOf(activeSets, length)

C16_Witness ==
  /\ pc = "place"
  /\ AllFourClasses
  /\ length >= 64
  /\ FlooredDistribution(activeSets, length)["symbols"]
       > FlooredDistribution(activeSets, length)["uppercase"]
  /\ FlooredDistribution(activeSets, length) = DocumentedFloors(options, length)


\* PasswordAnalyzer.calculateMaxAllowedRepetitions
calculateMaxAllowedRepetitions(len) ==
  IF len <= 8 THEN 2
  ELSE IF len <= 16 THEN Max(2, len \div 6)
  ELSE IF len <= 32 THEN Max(2, len \div 8)
  ELSE Max(3, len \div 10)

\* the budget as it is documented
DocumentedBudget(len) ==
  CASE len <= 8 -> 2
    [] 8 < len /\ len <= 16 -> IF len \div 6 > 2 THEN len \div 6 ELSE 2
    [] 16 < len /\ len <= 32 -> IF len \div 8 > 2 THEN len \div 8 ELSE 2
    [] OTHER -> IF len \div 10 > 3 THEN len \div 10 ELSE 3

\* C17: for every length >= 1 the budget the mapper works with is the documented
\* one, the analyzer computes the same value, and the lengths 8, 16, 24, 32 and 64
\* give 2, 2, 3, 4 and 6.
C17_RepetitionBudget ==
  pc = "place" =>
    /\ maxRepetitions = DocumentedBudget(length)
    /\ calculateMaxAllowedRepetitions(length) = maxRepetitions
    /\ length = 8 => maxRepetitions = 2
    /\ length = 16 => maxRepetitions = 2
    /\ length = 24 => maxRepetitions = 3
    /\ length = 32 => maxRepetitions = 4
    /\ length = 64 => maxRepetitions = 6

C17_Witness ==
  /\ pc = "place"
  /\ length = 64
  /\ maxRepetitions = 6
  /\ calculateMaxAllowedRepetitions(length) = 6


(***************************************************************************)
(* hashToPassword with no class enabled, then with all four                *)
(***************************************************************************)
NoClassEnabled ==
  [includeUppercase |-> FALSE, includeLowercase |-> FALSE,
   includeNumbers |-> FALSE, includeSymbols |-> FALSE]

\* the caller repeats the call with every class enabled
EnableAllClasses ==
  /\ pc = "idle"
  /\ Len(results) = 1
  /\ options = NoClassEnabled
  /\ options' = DEFAULT_PASSWORD_OPTIONS
  /\ UNCHANGED <<hash, length, pc, mapLocals, results, hcalls, gcall, harness, draw>>

FallbackInit ==
  /\ hash \in DigestSamples
  /\ length \in LengthSamples
  /\ options = NoClassEnabled
  /\ pc = "idle"
  /\ IdleLocals
  /\ results = <<>>
  /\ hcalls = [p \in Procs |-> IdleCall(NoHashOptions)]
  /\ gcall = IdleGeneration(NoRequest)
  /\ harness = IdleHarness
  /\ draw = NoDraw

FallbackNext == MapNext \/ EnableAllClasses

SpecFallback == FallbackInit /\ [][FallbackNext]_vars

\* C18: with no class enabled hashToPassword works with all four classes and
\* returns a password, the same one the call with all four classes enabled
\* returns for the same digest and length.
C18_FallbackToAllClasses ==
  /\ pc # "idle" => activeSets = AllSets
  /\ \A k \in Returned :
       /\ Len(results[k]) = length
       /\ results[k] = results[1]

C18_Witness ==
  /\ pc = "idle"
  /\ Len(results) = 2
  /\ options = DEFAULT_PASSWORD_OPTIONS
  /\ results[2] = results[1]
  /\ Range(results[1]) \cap Range(SYMBOLS) # {}


(***************************************************************************)
(* The compatibility checks over the pinned vectors                        *)
(***************************************************************************)
\* the diversity ratios are kept in thousandths
ALGORITHM_TEST_VECTORS ==
  <<
  [input |-> [keywords |-> <<<<"t","e","s","t">>>>, length |-> 16],
   expectedOutput |->
     [password |-> <<"B","u","9","]","T","_","0","Y","i","&","p","0","9",".","H","g">>,
      hashPrefix |-> <<"4","6","5","e","3","4","9","b","f","2","0","a","c","0","0","9">>,
      characterDiversity |->
        [totalUniqueCharacters |-> 14, maxRepetitions |-> 2, diversityRatio |-> 875]]],
  [input |-> [keywords |-> <<<<"g","i","t","h","u","b",".","c","o","m">>, <<"u","s","e","r","@","e","m","a","i","l",".","c","o","m">>>>, length |-> 16],
   expectedOutput |->
     [password |-> <<"V","k","!","]","X","m","K","0","G","2","5","<","m","3","$","p">>,
      hashPrefix |-> <<"0","e","5","9","3","a","a","a","a","a","a","c","0","4","9","e">>,
      characterDiversity |->
        [totalUniqueCharacters |-> 15, maxRepetitions |-> 2, diversityRatio |-> 938]]],
  [input |-> [keywords |-> <<<<"d","i","v","e","r","s","i","t","y","-","t","e","s","t">>>>, length |-> 32],
   expectedOutput |->
     [password |-> <<"$","U","e","q","o","0","M","y","J","y","M","z","6","D","y","j","M","J","d","6",";","G","w","6","2","h","]","<","9","*","h","%">>,
      hashPrefix |-> <<"4","6","1","f","4","d","9","8","b","e","e","7","9","2","2","b">>,
      characterDiversity |->
        [totalUniqueCharacters |-> 24, maxRepetitions |-> 3, diversityRatio |-> 750]]]
  >>

VectorIndices == 1..Len(ALGORITHM_TEST_VECTORS)

\* hash.substring(0, 16)
prefixLength == 16

\* the tolerance of the ratio comparison, in thousandths
ratioTolerance == 1

\* s.substring(0, end)
substring0(s, end) == SubSeq(s, 1, IF end < Len(s) THEN end ELSE Len(s))

\* what an awaited call settles with: a value, or a thrown value
Returns(value) == [threw |-> FALSE, isError |-> FALSE, message |-> "", value |-> value]
Throws(isError, message, noValue) ==
  [threw |-> TRUE, isError |-> isError, message |-> message, value |-> noValue]

\* error instanceof Error ? error.message : 'Unknown error'
errorMessage(o) == IF o.isError THEN o.message ELSE "Unknown error"

\* a digest whose 16th character is not the pinned one
OtherHex(c) == IF c = "0" THEN "1" ELSE "0"
DigestOffPrefix(prefix) ==
  SubSeq(prefix, 1, prefixLength - 1) \o <<OtherHex(prefix[prefixLength])>>
    \o SubSeq(VectorDigest0, prefixLength + 1, DigestLength)

\* what generateHash can settle with for a vector: SHA-512 is not computed here,
\* so the digest is any of a matching one, one off in the last character of the
\* prefix, or a rejection
HashOutcomeNames == {"pinned", "off", "throws"}
HashOutcome(vector, name) ==
  CASE name = "pinned" ->
         Returns([hash |-> vector.expectedOutput.hashPrefix
                             \o SubSeq(VectorDigest2, prefixLength + 1, DigestLength),
                  iterations |-> Integer(hashIterations)])
    [] name = "off" ->
         Returns([hash |-> DigestOffPrefix(vector.expectedOutput.hashPrefix),
                  iterations |-> Integer(hashIterations)])
    [] OTHER -> Throws(TRUE, "crypto.subtle is undefined", NoHashResult)
HashOutcomes(vector) == {HashOutcome(vector, name) : name \in HashOutcomeNames}

\* the outcomes the platform allows for the vector at k (from 1)
PlatformHash(k) ==
  IF harness.platform.hash = <<>> THEN HashOutcomeNames ELSE {harness.platform.hash[k]}

\* the pinned password with its first two characters exchanged: the same counts
Exchanged(pw) == <<pw[2], pw[1]>> \o SubSeq(pw, 3, Len(pw))
\* the pinned password with its second character in the place of the first: other counts
Repeated(pw) == <<pw[2]>> \o SubSeq(pw, 2, Len(pw))

\* what generatePassword can settle with for a vector: the result object of a
\* password of the requested length, or a rejection
PasswordOutcomeNames == {"pinned", "exchanged", "repeated", "throws"}
PasswordOutcome(vector, name) ==
  CASE name = "pinned" ->
         Returns(PasswordResult(vector.expectedOutput.password,
                                DEFAULT_PASSWORD_OPTIONS, Integer(hashIterations)))
    [] name = "exchanged" ->
         Returns(PasswordResult(Exchanged(vector.expectedOutput.password),
                                DEFAULT_PASSWORD_OPTIONS, Integer(hashIterations)))
    [] name = "repeated" ->
         Returns(PasswordResult(Repeated(vector.expectedOutput.password),
                                DEFAULT_PASSWORD_OPTIONS, Integer(hashIterations)))
    [] OTHER -> Throws(FALSE, "", NoPasswordResult)
PasswordOutcomes(vector) ==
  {PasswordOutcome(vector, name) : name \in PasswordOutcomeNames}

PlatformPassword(k) ==
  IF harness.platform.password = <<>> THEN PasswordOutcomeNames
  ELSE {harness.platform.password[k]}

\* the try block and the catch block of validateAlgorithmCompatibility
hashVectorResult(i, vector, o) ==
  IF o.threw
  THEN [vectorIndex |-> i, actual |-> <<>>, passed |-> FALSE, error |-> errorMessage(o)]
  ELSE [vectorIndex |-> i,
        actual |-> substring0(o.value.hash, prefixLength),
        passed |-> substring0(o.value.hash, prefixLength) = vector.expectedOutput.hashPrefix,
        error |-> ""]

Abs(x) == IF x < 0 THEN -x ELSE x

\* mutant: the password itself is not compared
differencesOfMetricsOnly(result, expected) ==
  (IF result.metadata.characterDiversity.totalUniqueCharacters
        # expected.characterDiversity.totalUniqueCharacters
     THEN <<"totalUniqueCharacters">> ELSE <<>>)
  \o (IF result.metadata.characterDiversity.maxRepetitions
        # expected.characterDiversity.maxRepetitions
     THEN <<"maxRepetitions">> ELSE <<>>)
  \o (IF Abs(result.metadata.characterDiversity.diversityRatio
               - expected.characterDiversity.diversityRatio) > ratioTolerance
     THEN <<"diversityRatio">> ELSE <<>>)

\* the differences list; passed is false exactly when something was pushed
differencesOf(result, expected) ==
  (IF result.password # expected.password THEN <<"password">> ELSE <<>>)
  \o (IF result.metadata.characterDiversity.totalUniqueCharacters
        # expected.characterDiversity.totalUniqueCharacters
     THEN <<"totalUniqueCharacters">> ELSE <<>>)
  \o (IF result.metadata.characterDiversity.maxRepetitions
        # expected.characterDiversity.maxRepetitions
     THEN <<"maxRepetitions">> ELSE <<>>)
  \o (IF Abs(result.metadata.characterDiversity.diversityRatio
               - expected.characterDiversity.diversityRatio) > ratioTolerance
     THEN <<"diversityRatio">> ELSE <<>>)

\* the try block and the catch block of validatePasswordGenerationCompatibility
passwordVectorResult(i, vector, o) ==
  IF o.threw
  THEN [vectorIndex |-> i,
        actual |-> [password |-> <<>>, characterDiversity |-> NoDiversity],
        passed |-> FALSE, differences |-> <<>>, error |-> errorMessage(o)]
  ELSE [vectorIndex |-> i,
        actual |-> [password |-> o.value.password,
                    characterDiversity |-> o.value.metadata.characterDiversity],
        passed |-> differencesOf(o.value, vector.expectedOutput) = <<>>,
        differences |-> differencesOf(o.value, vector.expectedOutput),
        error |-> ""]

\* mutant: only the vectors that threw count as failed
failedVectorsWithError(rs) == SelectSeq(rs, LAMBDA r : r.error # "")

\* results.filter(r => !r.passed)
failedVectorsOf(rs) == SelectSeq(rs, LAMBDA r : ~r.passed)

\* the object either check returns
reportOf(c) ==
  [isCompatible |-> Len(failedVectorsOf(c.results)) = 0,
   testedVectors |-> Len(ALGORITHM_TEST_VECTORS),
   passedVectors |-> c.passedCount,
   failedVectors |-> failedVectorsOf(c.results)]

\* the rest of one iteration once the awaited call has settled with o, then the
\* next iteration up to its await, or the return after the last vector
vectorDone(c, result, o) ==
  LET pushed == [c EXCEPT !.results = Append(@, result),
                          !.passedCount = IF result.passed THEN @ + 1 ELSE @,
                          !.awaited = Append(@, o),
                          !.i = @ + 1]
  IN IF pushed.i < Len(ALGORITHM_TEST_VECTORS)
     THEN pushed
     ELSE [pushed EXCEPT !.pc = "returned", !.report = reportOf(pushed)]

otherVars == <<mapVars, hcalls, gcall, draw>>

\* the exported validateAlgorithmCompatibility starts both checks (Promise.all)
FullCheckBegin ==
  /\ harness.overall.pc = "idle"
  /\ harness' = [harness EXCEPT !.overall.pc = "awaiting",
                                !.run = @ + 1,
                                !.hashCheck.pc = "loop",
                                !.passwordCheck.pc = "loop"]
  /\ UNCHANGED otherVars

\* generateHash settles for the vector at i
HashVectorRuns ==
  /\ harness.hashCheck.pc = "loop"
  /\ \E name \in PlatformHash(harness.hashCheck.i + 1) :
       harness' = [harness EXCEPT !.hashCheck =
         vectorDone(@, hashVectorResult(@.i, ALGORITHM_TEST_VECTORS[@.i + 1],
                                        HashOutcome(ALGORITHM_TEST_VECTORS[@.i + 1], name)),
                    HashOutcome(ALGORITHM_TEST_VECTORS[@.i + 1], name))]
  /\ UNCHANGED otherVars

\* generatePassword settles for the vector at i
PasswordVectorRuns ==
  /\ harness.passwordCheck.pc = "loop"
  /\ \E name \in PlatformPassword(harness.passwordCheck.i + 1) :
       harness' = [harness EXCEPT !.passwordCheck =
         vectorDone(@, passwordVectorResult(@.i, ALGORITHM_TEST_VECTORS[@.i + 1],
                                            PasswordOutcome(ALGORITHM_TEST_VECTORS[@.i + 1], name)),
                    PasswordOutcome(ALGORITHM_TEST_VECTORS[@.i + 1], name))]
  /\ UNCHANGED otherVars

\* both checks have returned: the overall object
FullCheckReturns ==
  /\ harness.overall.pc = "awaiting"
  /\ harness.hashCheck.pc = "returned"
  /\ harness.passwordCheck.pc = "returned"
  /\ harness' = [harness EXCEPT
       !.overall = [pc |-> "returned",
                    isFullyCompatible |-> harness.hashCheck.report.isCompatible
                                            /\ harness.passwordCheck.report.isCompatible]]
  /\ UNCHANGED otherVars

\* HashGenerator.quickCompatibilityCheck once generateHash has settled with o:
\* the first vector, false when it throws
quickHashCheck(o) ==
  IF o.threw THEN Settled(FALSE, TRUE)
  ELSE Settled(substring0(o.value.hash, prefixLength)
                 = ALGORITHM_TEST_VECTORS[1].expectedOutput.hashPrefix, FALSE)

\* PasswordGenerator.quickPasswordCompatibilityCheck once generatePassword has
\* settled with o
quickPasswordCheck(o) ==
  IF o.threw THEN Settled(FALSE, TRUE)
  ELSE Settled(o.value.password = ALGORITHM_TEST_VECTORS[1].expectedOutput.password, FALSE)

\* the exported quickCompatibilityCheck starts both quick checks (Promise.all)
QuickCheckBegin ==
  /\ harness.quick.pc = "idle"
  /\ harness' = [harness EXCEPT !.quick.pc = "awaiting"]
  /\ UNCHANGED otherVars

\* HashGenerator.quickCompatibilityCheck: the first vector, false when it throws
QuickHashSettles ==
  /\ harness.quick.pc = "awaiting"
  /\ ~harness.quick.hashCheck.settled
  /\ \E name \in PlatformHash(1) :
       harness' = [harness EXCEPT !.quick.hashCheck =
         quickHashCheck(HashOutcome(ALGORITHM_TEST_VECTORS[1], name))]
  /\ UNCHANGED otherVars

\* PasswordGenerator.quickPasswordCompatibilityCheck
QuickPasswordSettles ==
  /\ harness.quick.pc = "awaiting"
  /\ ~harness.quick.passwordCheck.settled
  /\ \E name \in PlatformPassword(1) :
       harness' = [harness EXCEPT !.quick.passwordCheck =
         quickPasswordCheck(PasswordOutcome(ALGORITHM_TEST_VECTORS[1], name))]
  /\ UNCHANGED otherVars

\* return hashCheck && passwordCheck
QuickCheckReturns ==
  /\ harness.quick.pc = "awaiting"
  /\ harness.quick.hashCheck.settled
  /\ harness.quick.passwordCheck.settled
  /\ harness' = [harness EXCEPT
       !.quick.pc = "returned",
       !.quick.result = Settled(harness.quick.hashCheck.value
                                  /\ harness.quick.passwordCheck.value, FALSE)]
  /\ UNCHANGED otherVars

HarnessInit ==
  /\ MapIdle
  /\ hcalls = [p \in Procs |-> IdleCall(NoHashOptions)]
  /\ gcall = IdleGeneration(NoRequest)
  /\ harness = IdleHarness
  /\ draw = NoDraw

HarnessNext ==
  \/ FullCheckBegin
  \/ HashVectorRuns
  \/ PasswordVectorRuns
  \/ FullCheckReturns
  \/ QuickCheckBegin
  \/ QuickHashSettles
  \/ QuickPasswordSettles
  \/ QuickCheckReturns

SpecHarness == HarnessInit /\ [][HarnessNext]_vars

(***************************************************************************)
(* PasswordGenerator.validateFullAlgorithm                                 *)
(***************************************************************************)
\* validateFullAlgorithm starts the two quick checks (Promise.all)
FullAlgorithmBegin ==
  /\ harness.full.pc = "idle"
  /\ harness' = [harness EXCEPT !.full.pc = "awaiting"]
  /\ UNCHANGED otherVars

\* HashGenerator.quickCompatibilityCheck settles
FullAlgorithmHashSettles ==
  /\ harness.full.pc = "awaiting"
  /\ ~harness.full.hashCheck.settled
  /\ \E name \in PlatformHash(1) :
       harness' = [harness EXCEPT !.full.hashCheck =
         quickHashCheck(HashOutcome(ALGORITHM_TEST_VECTORS[1], name))]
  /\ UNCHANGED otherVars

\* this.quickPasswordCompatibilityCheck settles
FullAlgorithmPasswordSettles ==
  /\ harness.full.pc = "awaiting"
  /\ ~harness.full.passwordCheck.settled
  /\ \E name \in PlatformPassword(1) :
       harness' = [harness EXCEPT !.full.passwordCheck =
         quickPasswordCheck(PasswordOutcome(ALGORITHM_TEST_VECTORS[1], name))]
  /\ UNCHANGED otherVars

\* both have settled, neither rejects: the object of the try block
FullAlgorithmReturns ==
  /\ harness.full.pc = "awaiting"
  /\ harness.full.hashCheck.settled
  /\ harness.full.passwordCheck.settled
  /\ harness' = [harness EXCEPT
       !.full.pc = "returned",
       !.full.isFullyCompatible = harness.full.hashCheck.value
                                    /\ harness.full.passwordCheck.value,
       !.full.hashCompatibility = harness.full.hashCheck.value,
       !.full.passwordCompatibility = harness.full.passwordCheck.value]
  /\ UNCHANGED otherVars

\* a platform gives every vector one outcome of generateHash and one of
\* generatePassword: both are functions of their arguments
Platforms ==
  [hash : [VectorIndices -> HashOutcomeNames],
   password : [VectorIndices -> PasswordOutcomeNames]]

\* the two exported checks on one platform, one after the other
VerdictsInit ==
  /\ MapIdle
  /\ hcalls = [p \in Procs |-> IdleCall(NoHashOptions)]
  /\ gcall = IdleGeneration(NoRequest)
  /\ \E platform \in Platforms : harness = [IdleHarness EXCEPT !.platform = platform]
  /\ draw = NoDraw

FullCheckDone == harness.overall.pc = "returned"

VerdictsNext ==
  \/ FullCheckBegin
  \/ HashVectorRuns
  \/ PasswordVectorRuns
  \/ FullCheckReturns
  \/ FullCheckDone /\ FullAlgorithmBegin
  \/ FullAlgorithmHashSettles
  \/ FullAlgorithmPasswordSettles
  \/ FullAlgorithmReturns

SpecVerdicts == VerdictsInit /\ [][VerdictsNext]_vars

(***************************************************************************)
(* validateAlgorithmCompatibility called again in the same process         *)
(***************************************************************************)
\* the largest number of calls of validateAlgorithmCompatibility
MaxRuns == 2

\* mutant: the results array of the call before is appended to
StaleCheck(c) == [c EXCEPT !.pc = "loop", !.i = 0, !.passedCount = 0, !.awaited = <<>>]

\* const results = []; let passedCount = 0: the locals of a call are created
\* when it is entered, whatever a call before has left
FreshCheck(c) == [IdleCheck EXCEPT !.pc = "loop"]

\* validateAlgorithmCompatibility is called once more; what the call before
\* has returned is kept aside
FullCheckAgain ==
  /\ harness.overall.pc = "returned"
  /\ harness.run < MaxRuns
  /\ harness' = [harness EXCEPT
       !.previous = [hashCheck |-> harness.hashCheck,
                     passwordCheck |-> harness.passwordCheck,
                     overall |-> harness.overall],
       !.run = @ + 1,
       !.overall = [pc |-> "awaiting", isFullyCompatible |-> FALSE],
       !.hashCheck = FreshCheck(@),
       !.passwordCheck = FreshCheck(@)]
  /\ UNCHANGED otherVars

\* the generateHash call that runs between two calls of the check
BetweenRequest ==
  [keywords |-> <<KeywordTest>>, masterSalt |-> Null, iterations |-> Integer(1)]

TwiceInit ==
  /\ MapIdle
  /\ hcalls = [p \in Procs |-> IdleCall(BetweenRequest)]
  /\ gcall = IdleGeneration(NoRequest)
  /\ \E platform \in Platforms : harness = [IdleHarness EXCEPT !.platform = platform]
  /\ draw = NoDraw

\* a check has returned and the next one has not been called
BetweenRuns == harness.overall.pc = "returned"

\* the call in between is not under way: the caller awaits it before it
\* calls the check again
BetweenSettled == hcalls[1].pc \in {"idle", "done", "failed"}

TwiceNext ==
  \/ FullCheckBegin
  \/ HashVectorRuns
  \/ PasswordVectorRuns
  \/ FullCheckReturns
  \/ BetweenRuns /\ HashBegin(1)
  \/ BetweenRuns /\ DigestResolves(1)
  \/ BetweenRuns /\ TimerFires(1)
  \/ BetweenSettled /\ FullCheckAgain

SpecTwice == TwiceInit /\ [][TwiceNext]_vars


(***************************************************************************)
(* Properties of the compatibility checks                                  *)
(***************************************************************************)
\* the vector at k has passed the hash check, the password check
PassedHash(k) ==
  k \in DOMAIN harness.hashCheck.results /\ harness.hashCheck.results[k].passed
PassedPassword(k) ==
  k \in DOMAIN harness.passwordCheck.results /\ harness.passwordCheck.results[k].passed

\* C19: a vector passes the password check only if generatePassword returned the
\* pinned password with the pinned unique count, largest count and ratio, it
\* passes the hash check only if the first 16 characters of the digest
\* generateHash returned are the pinned prefix, and isFullyCompatible is true
\* exactly when every vector has passed both checks.
C19_PassedOnlyIfPinned ==
  /\ \A k \in VectorIndices :
       PassedPassword(k) =>
         /\ ~harness.passwordCheck.awaited[k].threw
         /\ harness.passwordCheck.awaited[k].value.password
              = ALGORITHM_TEST_VECTORS[k].expectedOutput.password
         /\ harness.passwordCheck.awaited[k].value.metadata.characterDiversity
              = ALGORITHM_TEST_VECTORS[k].expectedOutput.characterDiversity
  /\ \A k \in VectorIndices :
       PassedHash(k) =>
         /\ ~harness.hashCheck.awaited[k].threw
         /\ SubSeq(harness.hashCheck.awaited[k].value.hash, 1, 16)
              = ALGORITHM_TEST_VECTORS[k].expectedOutput.hashPrefix
  /\ harness.overall.pc = "returned" =>
       (harness.overall.isFullyCompatible
          <=> \A k \in VectorIndices : PassedHash(k) /\ PassedPassword(k))

C19_Witness ==
  /\ harness.overall.pc = "returned"
  /\ harness.overall.isFullyCompatible
  /\ \A k \in VectorIndices : PassedHash(k) /\ PassedPassword(k)
  /\ \A k \in VectorIndices :
       harness.hashCheck.awaited[k].value.hash
         # ALGORITHM_TEST_VECTORS[k].expectedOutput.hashPrefix

\* the checks of the full check, by name
FullChecks == {harness.hashCheck, harness.passwordCheck}

\* C20: in either full check a rejected call is recorded as the failure of its
\* vector and the loop goes on to the last vector, the returned counts satisfy
\* passedVectors + number of failedVectors = testedVectors, isCompatible holds
\* exactly when failedVectors is empty, and a quick check whose call rejected
\* gives false, as does the quick check over both.
C20_NeverThrows ==
  /\ \A c \in FullChecks :
       /\ c.pc \in {"idle", "loop", "returned"}
       /\ Len(c.results) = c.i
       /\ \A k \in DOMAIN c.results :
            /\ c.results[k].vectorIndex = k - 1
            /\ c.awaited[k].threw => ~c.results[k].passed /\ c.results[k].error # ""
       /\ c.pc = "loop" => c.i < Len(ALGORITHM_TEST_VECTORS)
       /\ c.pc = "returned" =>
            /\ Len(c.results) = Len(ALGORITHM_TEST_VECTORS)
            /\ c.report.testedVectors = Len(ALGORITHM_TEST_VECTORS)
            /\ c.report.passedVectors + Len(c.report.failedVectors) = c.report.testedVectors
            /\ c.report.isCompatible <=> c.report.failedVectors = <<>>
  /\ harness.quick.hashCheck.threw => ~harness.quick.hashCheck.value
  /\ harness.quick.passwordCheck.threw => ~harness.quick.passwordCheck.value
  /\ harness.quick.pc = "returned" =>
       /\ harness.quick.result.settled
       /\ harness.quick.hashCheck.threw \/ harness.quick.passwordCheck.threw
            => ~harness.quick.result.value

C20_Witness ==
  /\ harness.hashCheck.pc = "returned"
  /\ harness.hashCheck.awaited[1].threw
  /\ harness.hashCheck.results[2].passed
  /\ ~harness.hashCheck.results[3].passed
  /\ ~harness.hashCheck.awaited[3].threw
  /\ harness.hashCheck.report.passedVectors = 1
  /\ harness.passwordCheck.pc = "returned"
  /\ harness.passwordCheck.awaited[2].threw
  /\ harness.passwordCheck.results[3].passed
  /\ harness.quick.pc = "returned"
  /\ harness.quick.passwordCheck.threw
  /\ harness.quick.hashCheck.value

\* the passed flags of a check, vector by vector
PassedFlags(c) == [k \in DOMAIN c.results |-> c.results[k].passed]

\* C21: when validateAlgorithmCompatibility has returned a second time in the
\* same process, with a generateHash call run in between, every vector has
\* the passed flag, the actual value and the error it had in the first call,
\* both reports are the same and isFullyCompatible is the same.
C21_SameResultsTwice ==
  harness.run >= 2 /\ harness.overall.pc = "returned" =>
    /\ PassedFlags(harness.hashCheck) = PassedFlags(harness.previous.hashCheck)
    /\ PassedFlags(harness.passwordCheck) = PassedFlags(harness.previous.passwordCheck)
    /\ harness.hashCheck.results = harness.previous.hashCheck.results
    /\ harness.passwordCheck.results = harness.previous.passwordCheck.results
    /\ harness.hashCheck.report = harness.previous.hashCheck.report
    /\ harness.passwordCheck.report = harness.previous.passwordCheck.report
    /\ harness.overall = harness.previous.overall

C21_Witness ==
  /\ harness.run = 2
  /\ harness.overall.pc = "returned"
  /\ harness.previous.overall.pc = "returned"
  /\ hcalls[1].pc = "done"
  /\ harness.hashCheck.results[1].passed
  /\ ~harness.hashCheck.results[2].passed
  /\ harness.passwordCheck.awaited[3].threw
  /\ ~harness.overall.isFullyCompatible

\* the three calls of the scenario have returned
ScenarioDone == gcall.pc = "returned" /\ gcall.pending = <<>> /\ Len(results) = 3

\* C22: an instance constructed with SECURITY_CONFIG.masterSalt = S returns, for
\* a generatePassword call without a masterSalt option, the password a call
\* with masterSalt S returns, and not the password of the unsalted call.
C22_ConstructorSaltUsed ==
  ScenarioDone => results[1] = results[2] /\ results[1] # results[3]

\* fillPasswordWithDistribution has returned, fillRemainingPositions has not run
PlacementDone == pc = "place" /\ setIndex > Len(activeSets)

\* how many positions of pw hold a character of the pool of class t
PoolCount(pw, t) ==
  Cardinality({i \in DOMAIN pw : pw[i] \in Range(CHARACTER_SETS(t))})

\* a character was chosen although it had reached the budget
FallbackTaken == \E c \in PoolChars : characterUsage[c] > maxRepetitions

\* C23: for lengths 8..128, when the placement pass has ended every position is
\* used and holds a character, each class has as many characters of its pool
\* as its target count, also where a saturated character was chosen, the fill
\* pass then changes nothing, and the returned password has the target counts.
C23_CountsEqualTargets ==
  /\ PlacementDone =>
       /\ usedPositions = 0..(length - 1)
       /\ \A i \in 0..(length - 1) : password[i] # Hole
       /\ \A t \in Range(TypeNames) : PoolCount(password, t) = targetDistribution[t]
       /\ fillRemainingPositions(hash, length, maxRepetitions, activeSets, 0, Scratch)
            = Scratch
  /\ pc \in {"shuffle", "join"} =>
       \A t \in Range(TypeNames) : PoolCount(password, t) = targetDistribution[t]
  /\ \A k \in Returned :
       \A t \in Range(TypeNames) :
         /\ calculateActualDistribution(results[k])[t] = targetDistribution[t]
         /\ PoolCount(results[k], t) = targetDistribution[t]

C23_Witness ==
  /\ pc = "idle"
  /\ results # <<>>
  /\ FallbackTaken
  /\ targetDistribution["numbers"] = length
  /\ \A t \in Range(TypeNames) :
       calculateActualDistribution(results[1])[t] = targetDistribution[t]

\* an iteration of the inner loop of the placement pass has just run
SlotPlaced == pc = "place" /\ slot # NoSlot

\* the position the k-th probe of that iteration drew, k from 1
ProbeAt(k) ==
  getHashValue(hash, (slot.offsetBefore + 3 * (k - 1)) % Len(hash),
               charCodeAt0(slot.type) * 1000 + slot.i * 100 + (k - 1)) % length

\* the positions that were free when the iteration began, and the lowest one
FreeBefore == (0..(length - 1)) \ slot.usedBefore
LowestFreeBefore == CHOOSE j \in FreeBefore : \A x \in FreeBefore : j <= x

\* the slot went to a position that was free, the character was written there
\* and counted once, and the probes stopped at the first free position or
\* after 2 * length of them
WrittenOnceAfterProbes ==
  /\ slot.written
  /\ slot.position \in FreeBefore
  /\ usedPositions = slot.usedBefore \cup {slot.position}
  /\ password[slot.position] = slot.char
  /\ slot.char \in Range(CHARACTER_SETS(slot.type))
  /\ \A c \in PoolChars :
       characterUsage[c] = Cardinality({x \in usedPositions : password[x] = c})
  /\ slot.attempts \in 1..(2 * length)
  /\ \A k \in 1..(slot.attempts - 1) : ProbeAt(k) \notin FreeBefore
  /\ slot.probed = ProbeAt(slot.attempts)
  /\ slot.attempts < 2 * length => slot.probed \in FreeBefore

\* C24 as stated: every slot of the placement pass is written to a position
\* that was free and its character is counted once; the position is the first
\* probed one that is free among at most 2 * length probes, and the lowest free
\* index only when all 2 * length probes collided.
C24_ScanOnlyAfterCollisions ==
  SlotPlaced =>
    /\ WrittenOnceAfterProbes
    /\ slot.position =
         IF \E k \in 1..(2 * length) : ProbeAt(k) \in FreeBefore
         THEN ProbeAt(CHOOSE k \in 1..(2 * length) :
                        /\ ProbeAt(k) \in FreeBefore
                        /\ \A m \in 1..(k - 1) : ProbeAt(m) \notin FreeBefore)
         ELSE LowestFreeBefore

\* C24 amended: every slot of the placement pass is written to a position that
\* was free and its character is counted once; the position is the first
\* probed one that is free among the first 2 * length - 1 probes, and the
\* lowest free index whenever 2 * length probes were made, whether the last of
\* them collided or not.
C24_ScanAfterLastProbe ==
  SlotPlaced =>
    /\ WrittenOnceAfterProbes
    /\ slot.position =
         IF slot.attempts < 2 * length THEN slot.probed ELSE LowestFreeBefore

\* the last probe found a free position and the slot went to a lower one
C24_Witness ==
  /\ SlotPlaced
  /\ slot.written
  /\ slot.attempts = 2 * length
  /\ slot.probed \in FreeBefore
  /\ slot.position < slot.probed
  /\ password[slot.position] = slot.char
  /\ password[slot.probed] = Hole

\* the pool handed to selectCharacterWithRepetitionControl for the slot, and the
\* usage counts it was called with
SlotPool == Range(CHARACTER_SETS(slot.type))
UsageBefore(c) == IF c = slot.char THEN characterUsage[c] - 1 ELSE characterUsage[c]

\* C25: the character selectCharacterWithRepetitionControl returned for a slot
\* belongs to the pool of the slot's class; its usage count was below the
\* budget if any character of the pool was below the budget, and otherwise it
\* was the smallest usage count of the pool.
C25_UnderBudgetOrLeastUsed ==
  SlotPlaced /\ slot.written =>
    /\ slot.char \in SlotPool
    /\ (\E c \in SlotPool : UsageBefore(c) < maxRepetitions)
         => UsageBefore(slot.char) < maxRepetitions
    /\ (\A c \in SlotPool : UsageBefore(c) >= maxRepetitions)
         => \A c \in SlotPool : UsageBefore(slot.char) <= UsageBefore(c)

\* every character of the pool had reached the budget, some had gone beyond it
C25_Witness ==
  /\ SlotPlaced
  /\ slot.written
  /\ \A c \in SlotPool : UsageBefore(c) >= maxRepetitions
  /\ \E c \in SlotPool : UsageBefore(c) > UsageBefore(slot.char)
  /\ UsageBefore(slot.char) = maxRepetitions

\* the three characters a call with this seed reads when the cursor is at offset
DigitsRead(offset, seed) ==
  [k \in 0..2 |-> hash[((offset + seed + k) % Len(hash)) + 1]]

\* the hash string holds nothing but lowercase hexadecimal digits
HexOnly == \A k \in DOMAIN hash : hash[k] \in Range(HexDigits)

\* the place of a lowercase hexadecimal digit among the sixteen, from 0
DigitRank(c) == (CHOOSE n \in 1..16 : HexDigits[n] = c) - 1

\* the number three lowercase hexadecimal digits write
ThreeDigits(d) == 256 * DigitRank(d[0]) + 16 * DigitRank(d[1]) + DigitRank(d[2])

\* the cursor after the calls made so far, and what the latest call read
CursorAdvancesByThree ==
  /\ hashOffset = (3 * draw.count) % Len(hash)
  /\ draw.count > 0 => draw.before = (3 * (draw.count - 1)) % Len(hash)
  /\ draw.count > 0 /\ HexOnly =>
       draw.value = IF ThreeDigits(DigitsRead(draw.before, draw.seed)) = 0 THEN 1
                    ELSE ThreeDigits(DigitsRead(draw.before, draw.seed))

Differing(pw, qw) == {x \in DOMAIN pw : pw[x] # qw[x]}

\* qw holds the characters of pw, each as many times
SameCharacters(pw, qw) ==
  /\ DOMAIN pw = DOMAIN qw
  /\ \A c \in Range(pw) \cup Range(qw) : CountOf(pw, c) = CountOf(qw, c)

\* the array one step of the shuffle loop at index i would leave
SwappedAt(i) ==
  ShuffleOne(hash, i, [password |-> password, hashOffset |-> hashOffset]).password

\* C27: a step of shufflePassword at index i, for every i from length - 1 down
\* to 1, exchanges position i with a position from 0 to i and changes nothing
\* else; the whole shuffle leaves an array with the same characters, each as
\* many times, so the length, the repetition counts and the per-class counts
\* of the shuffled array are those of the array before.
C27_ShuffleOnlyPermutes ==
  /\ pc = "shuffle" =>
       /\ \A i \in 1..(length - 1) :
            /\ Differing(password, SwappedAt(i)) \subseteq 0..i
            /\ Cardinality(Differing(password, SwappedAt(i))) \in {0, 2}
            /\ SameCharacters(password, SwappedAt(i))
       /\ SameCharacters(password,
                         shufflePassword(hash, length, password, hashOffset).password)
  /\ pc = "join" =>
       /\ DOMAIN password = 0..(length - 1)
       /\ \A c \in PoolChars : CountOf(password, c) = characterUsage[c]
       /\ \A t \in Range(TypeNames) : PoolCount(password, t) = targetDistribution[t]

\* the shuffle has moved characters: the array is no longer class by class
C27_Witness ==
  /\ pc = "join"
  /\ AllFourClasses
  /\ length = defaultPasswordLength
  /\ \A c \in PoolChars : CountOf(password, c) = characterUsage[c]
  /\ slot.written
  /\ password[slot.position] # slot.char
  /\ hashOffset = (slot.offsetBefore + 3 * (slot.attempts + 1) + 3 * (length - 1))
                     % Len(hash)

\* the values of hashVal % totalWeight for which the fill pass selects the set at s
ValuesSelecting(sets, len, s) ==
  {v \in 0..(SumWeights(sets, len, 1) - 1) : selectedSetFrom(sets, len, v, 1) = sets[s]}

\* the weight of a class in the fill pass
FillWeight(type, len) ==
  IF len >= mediumThreshold /\ type = "symbols" THEN 3
  ELSE IF len >= mediumThreshold /\ type = "numbers" THEN 2
  ELSE 1

\* C28: in the fill pass, for the active sets of the call and a length below
\* or from 32, the number of values of hashVal % totalWeight that select a
\* class is the weight of that class (3 for symbols and 2 for numbers from
\* length 32, else 1), so that every active class is selected by some value.
C28_SelectedByWeight ==
  activeSets # <<>> =>
    \A len \in {length, mediumThreshold} :
      \A s \in DOMAIN activeSets :
        /\ Cardinality(ValuesSelecting(activeSets, len, s))
             = FillWeight(activeSets[s].type, len)
        /\ ValuesSelecting(activeSets, len, s) # {}

\* C29: when validateAlgorithmCompatibility and validateFullAlgorithm have both
\* returned on one platform, validateFullAlgorithm reports isFullyCompatible
\* true only if every vector passed the hash check and the password check, and
\* its isFullyCompatible equals overall.isFullyCompatible.
C29_SameVerdict ==
  harness.overall.pc = "returned" /\ harness.full.pc = "returned" =>
    /\ harness.full.isFullyCompatible
         => \A k \in VectorIndices : PassedHash(k) /\ PassedPassword(k)
    /\ harness.full.isFullyCompatible = harness.overall.isFullyCompatible

\* iterations of the inner loop of fillPasswordWithDistribution run so far
RECURSIVE TargetsBefore(_)
TargetsBefore(k) ==
  IF k <= 1 THEN 0
  ELSE TargetsBefore(k - 1) + targetDistribution[activeSets[k - 1].type]

PlacedSteps == TargetsBefore(setIndex) + slotIndex

InCall == pc \in {"place", "shuffle", "join"}
CallReturned == pc = "idle" /\ results # <<>>

\* the statements a call still has to run, at most: the iterations of the two
\* placement loops, then the fill pass, the shuffle and the join
Rank ==
  CASE pc = "place" ->
         3 + (length - PlacedSteps) + (Len(activeSets) + 1 - setIndex)
    [] pc = "shuffle" -> 2
    [] pc = "join" -> 1
    [] OTHER -> 0

\* the loops stay within their bounds, a call that has not returned has a next
\* statement, and every selection yields a character
WithinBounds ==
  /\ InCall => /\ activeSets # <<>>
               /\ PlacedSteps <= length
               /\ Rank \in 1..(length + Len(activeSets) + 3)
  /\ pc = "place" =>
       /\ setIndex \in 1..(Len(activeSets) + 1)
       /\ setIndex <= Len(activeSets) =>
            slotIndex <= targetDistribution[activeSets[setIndex].type]
  /\ slot # NoSlot =>
       /\ slot.attempts \in 1..(2 * length)
       /\ slot.i < length
       /\ slot.written => slot.char \in PoolChars
  /\ pc \in {"shuffle", "join"} =>
       \A i \in 0..(length - 1) : password[i] \in PoolChars
  /\ CallReturned => /\ Len(results[1]) = length
                 /\ \A i \in 1..length : results[1][i] \in PoolChars

\* C30: for a non-empty string of hex digits, a length of at least 1 and any
\* options, every probe loop of hashToPassword ends within 2 * length draws, the
\* inner placement loop runs at most length times, every character selection
\* yields a character of the pool, every statement of a call lowers the number
\* of statements left, which starts at no more than length + 7, a call that has
\* not returned has a statement to run, and the password returned has length
\* characters.
C30_TerminatesWithinBounds ==
  /\ []WithinBounds
  /\ [][InCall => Rank' < Rank]_vars

\* a call has returned whose last slot used up its 2 * length probes
C30_Witness ==
  /\ CallReturned
  /\ slot.attempts = 2 * length
  /\ slot.written

====
